---- MODULE Spec2Model ----
(***************************************************************************)
(* State-machine model of the poker core:                                  *)
(*   - the hand engine (src/engine/game_loop.rs and its helpers) driven    *)
(*     through the table manager (src/engine/table_manager.rs);            *)
(*   - the tournament lobby and tournament object                          *)
(*     (src/tournament/lobby.rs, src/domain/tournament.rs).                *)
(* Chips are small naturals; u64 saturation is never reached within the    *)
(* bounds.  A HashMap<SeatIndex, Chips> is a function Seats -> Nat with 0  *)
(* for an absent key (add_contribution never inserts 0 and                 *)
(* compute_side_pots drops zero entries, so the two are indistinguishable).*)
(* The shuffled deck is modelled by the number of cards drawn and by the   *)
(* strength the shuffle gives to each seat's final hand.                   *)
(***************************************************************************)
EXTENDS Integers, Sequences, FiniteSets, TLC

\* ------------------------------------------------------------------ bounds
MaxSeats == 3
MaxStack == 3
MaxHands == 1
MaxRank == 2
MaxTournaments == 1
MaxPlayers == 3
MaxTime == 1
MaxContribution == 3
MaxMinutes == 3
MaxEntrants == 6
MaxSecs == 3
MaxElapsed == 7
FloorEntrants == 4

\* ------------------------------------------------------------ basic values
NoSeat == -1

Seats == 0 .. (MaxSeats - 1)

PlayerIdOf(seat) == seat + 1

PlayerIds == {PlayerIdOf(s) : s \in Seats}

AnteTypes == {"None", "Classic", "BigBlind"}

StakesChoices ==
    {[small_blind |-> 1, big_blind |-> 2, ante_type |-> at, ante |-> 1] : at \in AnteTypes}

Amounts == 0 .. (MaxStack + 1)

ActionKinds ==
    {[k |-> "Fold", amount |-> 0], [k |-> "Check", amount |-> 0],
     [k |-> "Call", amount |-> 0], [k |-> "AllIn", amount |-> 0]}
    \cup {[k |-> "Bet", amount |-> a] : a \in Amounts}
    \cup {[k |-> "Raise", amount |-> a] : a \in Amounts}

Fold == [k |-> "Fold", amount |-> 0]

\* The PlayerAction values submitted to a table whose seat to act is `actor`:
\* every kind by the player of that seat, and a Fold for every seat index
\* (MaxSeats is out of range) under the seat's own player id and under a wrong one.
PlayerActions(actor) ==
    {[player_id |-> PlayerIdOf(actor), seat |-> actor, kind |-> kind] :
        kind \in IF actor \in Seats THEN ActionKinds ELSE {}}
    \cup UNION {{[player_id |-> pid, seat |-> seat, kind |-> Fold] :
                    pid \in {PlayerIdOf(seat), PlayerIdOf((seat + 1) % MaxSeats)}} :
                 seat \in 0 .. MaxSeats}

Min(a, b) == IF a < b THEN a ELSE b

RECURSIVE SumOver(_, _)
SumOver(f, S) ==
    IF S = {} THEN 0
    ELSE LET x == CHOOSE y \in S : TRUE IN f[x] + SumOver(f, S \ {x})

RECURSIVE SumAmounts(_)
SumAmounts(sq) == IF sq = <<>> THEN 0 ELSE Head(sq).amount + SumAmounts(Tail(sq))

SeqToSet(sq) == {sq[i] : i \in 1 .. Len(sq)}

Contains(sq, x) == \E i \in 1 .. Len(sq) : sq[i] = x

RemoveAll(sq, x) == SelectSeq(sq, LAMBDA y : y # x)

\* --------------------------------------------------------- domain objects
NoPlayer ==
    [player_id |-> 0, stack |-> 0, current_bet |-> 0, status |-> "Empty", hole_cards |-> <<>>]

PlayerAtTable_new(player_id, stack) ==
    [player_id |-> player_id, stack |-> stack, current_bet |-> 0,
     status |-> "Active", hole_cards |-> <<>>]

IsSome(p) == p.status # "Empty"

Table_new(stakes) ==
    [config |-> [max_seats |-> MaxSeats, stakes |-> stakes],
     seats |-> [s \in Seats |-> NoPlayer],
     board |-> <<>>,
     dealer_button |-> NoSeat,
     current_hand_id |-> 0,
     street |-> "Preflop",
     hand_in_progress |-> FALSE,
     total_pot |-> 0]

seated_count(t) == Cardinality({s \in Seats : IsSome(t.seats[s])})

BettingState_new(street, current_bet, min_raise, to_act) ==
    [current_bet |-> current_bet, min_raise |-> min_raise, last_aggressor |-> NoSeat,
     street |-> street, to_act |-> to_act]

mark_acted(b, seat) == [b EXCEPT !.to_act = RemoveAll(@, seat)]

\* on_raise that forgets to store the new current_bet.
on_raise_keeps_current_bet(b, seat, new_bet, raise_size, new_to_act) ==
    [b EXCEPT !.min_raise = raise_size, !.last_aggressor = seat, !.to_act = new_to_act]

on_raise(b, seat, new_bet, raise_size, new_to_act) ==
    [b EXCEPT !.current_bet = new_bet, !.min_raise = raise_size,
              !.last_aggressor = seat, !.to_act = new_to_act]

is_round_complete(b) == b.to_act = <<>>

NoEngine == [present |-> FALSE]

HandEngine_new(hand_id, deck, betting) ==
    [present |-> TRUE, hand_id |-> hand_id, deck |-> deck, betting |-> betting,
     pot |-> 0, side_pots |-> <<>>,
     contributions |-> [s \in Seats |-> 0],
     current_actor |-> NoSeat,
     history |-> <<>>]

history_push(e, ev) == [e EXCEPT !.history = Append(@, ev)]

\* ---------------------------------------------------------------- positions
RECURSIVE ScanOccupied(_, _, _)
ScanOccupied(t, idx, n) ==
    IF n = 0 THEN NoSeat
    ELSE IF idx < MaxSeats /\ IsSome(t.seats[idx]) THEN idx
    ELSE ScanOccupied(t, (idx + 1) % t.config.max_seats, n - 1)

next_occupied_seat(t, start, include_start) ==
    ScanOccupied(t, IF include_start THEN start ELSE (start + 1) % t.config.max_seats,
                 t.config.max_seats)

collect_occupied_seats_from(t, start) ==
    LET max == t.config.max_seats
        order == [i \in 1 .. max |-> (start + i - 1) % max]
    IN SelectSeq(order, LAMBDA s : IsSome(t.seats[s]))

next_dealer(t) ==
    IF t.dealer_button # NoSeat
    THEN next_occupied_seat(t, t.dealer_button, FALSE)
    ELSE next_occupied_seat(t, 0, TRUE)

ActiveOnly(t, order) == SelectSeq(order, LAMBDA s : t.seats[s].status = "Active")

\* Position (1-based) of x in sq, 0 when absent.
PositionOf(sq, x) ==
    IF Contains(sq, x) THEN CHOOSE i \in 1 .. Len(sq) : sq[i] = x /\ \A j \in 1 .. (i - 1) : sq[j] # x
    ELSE 0

Rotate(sq, start0) ==
    [i \in 1 .. Len(sq) |-> sq[((start0 + i - 1) % Len(sq)) + 1]]

\* ------------------------------------------------------------- start_hand
take_from_stack(p, amount) ==
    LET real == IF p.stack < amount THEN p.stack ELSE amount
    IN [player |-> [p EXCEPT !.stack = @ - real], paid |-> real]

\* add_contribution without the pot.add call.
add_contribution_without_pot(e, seat, amount) ==
    IF amount = 0 THEN e
    ELSE [e EXCEPT !.contributions[seat] = @ + amount]

add_contribution(e, seat, amount) ==
    IF amount = 0 THEN e
    ELSE [e EXCEPT !.pot = @ + amount, !.contributions[seat] = @ + amount]

\* One ante payment of post_blinds_and_antes (no current_bet change).
PostAnte(ctx, seat) ==
    IF ~IsSome(ctx.t.seats[seat]) THEN ctx
    ELSE LET r == take_from_stack(ctx.t.seats[seat], ctx.t.config.stakes.ante)
         IN [ctx EXCEPT !.t.seats[seat] = r.player,
                        !.e = add_contribution(ctx.e, seat, r.paid),
                        !.ante_events = Append(@, [seat |-> seat, paid |-> r.paid])]

RECURSIVE PostAntes(_, _)
PostAntes(ctx, order) ==
    IF order = <<>> THEN ctx ELSE PostAntes(PostAnte(ctx, Head(order)), Tail(order))

\* The match on stakes.ante_type of post_blinds_and_antes.
PostAnteType(ctx, occupied, bb_seat) ==
    CASE ctx.t.config.stakes.ante_type = "None" -> ctx
      [] ctx.t.config.stakes.ante_type = "Classic" -> PostAntes(ctx, occupied)
      [] ctx.t.config.stakes.ante_type = "BigBlind" -> PostAnte(ctx, bb_seat)

\* The small blind payment of post_blinds_and_antes (adds to current_bet).
PostSmallBlind(ctx, seat) ==
    IF ~IsSome(ctx.t.seats[seat]) THEN ctx
    ELSE LET r == take_from_stack(ctx.t.seats[seat], ctx.t.config.stakes.small_blind)
         IN [ctx EXCEPT !.t.seats[seat] = [r.player EXCEPT !.current_bet = @ + r.paid],
                        !.e = add_contribution(ctx.e, seat, r.paid),
                        !.sb_evt = [seat |-> seat, paid |-> r.paid]]

\* The big blind payment of post_blinds_and_antes (adds to current_bet).
PostBigBlind(ctx, seat) ==
    IF ~IsSome(ctx.t.seats[seat]) THEN ctx
    ELSE LET r == take_from_stack(ctx.t.seats[seat], ctx.t.config.stakes.big_blind)
         IN [ctx EXCEPT !.t.seats[seat] = [r.player EXCEPT !.current_bet = @ + r.paid],
                        !.e = add_contribution(ctx.e, seat, r.paid),
                        !.bb_evt = [seat |-> seat, paid |-> r.paid]]

\* The end of post_blinds_and_antes: the betting state, the BlindsPosted event
\* and the order of action, which starts after the big blind.
SetPreflopBetting(ctx, dealer_seat, occupied, bb_seat) ==
    LET stakes == ctx.t.config.stakes
        bb_pos == PositionOf(occupied, bb_seat)
        start_idx == IF bb_pos > 0 THEN bb_pos % Len(occupied) ELSE 0
        to_act == ActiveOnly(ctx.t, Rotate(occupied, start_idx))
    IN [t |-> ctx.t,
        e |-> [ctx.e EXCEPT
                 !.betting = [@ EXCEPT !.current_bet = stakes.big_blind,
                                       !.min_raise = stakes.big_blind,
                                       !.last_aggressor = bb_seat,
                                       !.to_act = to_act],
                 !.history = Append(@, [kind |-> "BlindsPosted", dealer |-> dealer_seat,
                                        small_blind |-> ctx.sb_evt, big_blind |-> ctx.bb_evt,
                                        ante |-> ctx.ante_events]),
                 !.current_actor = IF to_act = <<>> THEN NoSeat ELSE Head(to_act)]]

\* post_blinds_and_antes once the occupied seats from the dealer are collected.
PostBlindsAmong(t, e, dealer_seat, occupied) ==
    IF Len(occupied) < 2 THEN [t |-> t, e |-> e]
    ELSE LET sb_seat == occupied[(1 % Len(occupied)) + 1]
             bb_seat == occupied[(2 % Len(occupied)) + 1]
             none == [seat |-> NoSeat, paid |-> 0]
         IN SetPreflopBetting(
               PostBigBlind(
                  PostSmallBlind(
                     PostAnteType([t |-> t, e |-> e, ante_events |-> <<>>,
                                   sb_evt |-> none, bb_evt |-> none], occupied, bb_seat),
                     sb_seat),
                  bb_seat),
               dealer_seat, occupied, bb_seat)

post_blinds_and_antes(t, e, dealer_seat) ==
    PostBlindsAmong(t, e, dealer_seat, collect_occupied_seats_from(t, dealer_seat))

\* deck.draw_one(): the next card of the shuffled deck (cards are named by
\* their position in the shuffled deck; 52 cards are never exhausted).
draw_one(e) == [e EXCEPT !.deck.drawn = @ + 1]

DealOne(ctx, seat) ==
    IF ~IsSome(ctx.t.seats[seat]) THEN ctx
    ELSE LET card == ctx.e.deck.drawn + 1
         IN [t |-> [ctx.t EXCEPT !.seats[seat].hole_cards = Append(@, card)],
             e |-> history_push(draw_one(ctx.e),
                       [kind |-> "HoleCardsDealt", seat |-> seat, card |-> card])]

RECURSIVE DealRound(_, _)
DealRound(ctx, order) ==
    IF order = <<>> THEN ctx ELSE DealRound(DealOne(ctx, Head(order)), Tail(order))

\* deal_hole_cards: two rounds over the occupied seats, starting at the dealer.
deal_hole_cards(ctx) ==
    LET order == collect_occupied_seats_from(ctx.t, ctx.t.dealer_button)
    IN DealRound(DealRound(ctx, order), order)

\* The status reset loop of start_hand.
ResetPlayerForHand(p) ==
    IF IsSome(p) /\ p.status \notin {"Busted", "SittingOut"}
    THEN [p EXCEPT !.status = "Active", !.current_bet = 0, !.hole_cards = <<>>]
    ELSE p

\* The resets start_hand makes before it looks for the dealer.
ResetTableForHand(t, new_hand_id) ==
    [t EXCEPT !.board = <<>>, !.total_pot = 0, !.current_hand_id = new_hand_id,
              !.street = "Preflop", !.hand_in_progress = TRUE,
              !.seats = [s \in Seats |-> ResetPlayerForHand(t.seats[s])]]

\* Ok(engine) of start_hand.
HandStarted(ctx) == [t |-> ctx.t, ok |-> TRUE, ret |-> "Ok", e |-> ctx.e]

\* start_hand from the choice of the dealer on; t1 is the table already reset,
\* which is what the caller is left with if no dealer is found.
StartWithDealer(t1, deck, new_hand_id) ==
    IF next_dealer(t1) = NoSeat
    THEN [t |-> t1, ok |-> FALSE, ret |-> "NotEnoughPlayers", e |-> NoEngine]
    ELSE HandStarted(deal_hole_cards(
            post_blinds_and_antes(
               [t1 EXCEPT !.dealer_button = next_dealer(t1)],
               history_push(
                  HandEngine_new(new_hand_id, deck,
                      BettingState_new("Preflop", 0, t1.config.stakes.big_blind, <<>>)),
                  [kind |-> "HandStarted", hand_id |-> new_hand_id]),
               next_dealer(t1))))

\* start_hand(table, rng, new_hand_id); deck is the result of rng.shuffle.
\* Returns the table, the engine (if any) and the Result.
start_hand(t, deck, new_hand_id) ==
    IF t.hand_in_progress
    THEN [t |-> t, ok |-> FALSE, ret |-> "HandAlreadyInProgress", e |-> NoEngine]
    ELSE IF seated_count(t) < 2
    THEN [t |-> t, ok |-> FALSE, ret |-> "NotEnoughPlayers", e |-> NoEngine]
    ELSE StartWithDealer(ResetTableForHand(t, new_hand_id), deck, new_hand_id)

\* ------------------------------------------------------------- validation
diff_to_call(p, b) ==
    IF b.current_bet <= p.current_bet THEN 0 ELSE b.current_bet - p.current_bet

\* validate_action whose Raise arm lacks the min_raise check.
validate_action_without_min_raise(p, kind, b) ==
    IF p.status \in {"Folded", "Busted", "SittingOut"} THEN "IllegalAction"
    ELSE CASE kind.k = "Fold" -> "Ok"
           [] kind.k = "Check" ->
                IF b.current_bet = p.current_bet THEN "Ok" ELSE "CannotCheck"
           [] kind.k = "Call" ->
                IF diff_to_call(p, b) = 0 THEN "CannotCall" ELSE "Ok"
           [] kind.k = "Bet" ->
                IF b.current_bet > 0 THEN "IllegalAction"
                ELSE IF p.stack < kind.amount THEN "NotEnoughChips"
                ELSE IF kind.amount = 0 THEN "IllegalAction"
                ELSE "Ok"
           [] kind.k = "Raise" ->
                IF b.current_bet = 0 THEN "IllegalAction"
                ELSE IF kind.amount <= b.current_bet THEN "IllegalAction"
                ELSE IF p.stack < kind.amount - p.current_bet THEN "NotEnoughChips"
                ELSE "Ok"
           [] kind.k = "AllIn" ->
                IF p.stack = 0 THEN "IllegalAction" ELSE "Ok"

validate_action(p, kind, b) ==
    IF p.status \in {"Folded", "Busted", "SittingOut"} THEN "IllegalAction"
    ELSE CASE kind.k = "Fold" -> "Ok"
           [] kind.k = "Check" ->
                IF b.current_bet = p.current_bet THEN "Ok" ELSE "CannotCheck"
           [] kind.k = "Call" ->
                IF diff_to_call(p, b) = 0 THEN "CannotCall" ELSE "Ok"
           [] kind.k = "Bet" ->
                IF b.current_bet > 0 THEN "IllegalAction"
                ELSE IF p.stack < kind.amount THEN "NotEnoughChips"
                ELSE IF kind.amount = 0 THEN "IllegalAction"
                ELSE "Ok"
           [] kind.k = "Raise" ->
                IF b.current_bet = 0 THEN "IllegalAction"
                ELSE IF kind.amount <= b.current_bet THEN "IllegalAction"
                ELSE IF kind.amount - b.current_bet < b.min_raise THEN "RaiseTooSmall"
                ELSE IF p.stack < kind.amount - p.current_bet THEN "NotEnoughChips"
                ELSE "Ok"
           [] kind.k = "AllIn" ->
                IF p.stack = 0 THEN "IllegalAction" ELSE "Ok"

\* -------------------------------------------------------------- side pots
\* Stable insertion of an entry into a list sorted by amount (sort_by_key is stable).
RECURSIVE InsertByAmount(_, _)
InsertByAmount(x, sorted) ==
    IF sorted = <<>> THEN <<x>>
    ELSE IF Head(sorted).amount <= x.amount
         THEN <<Head(sorted)>> \o InsertByAmount(x, Tail(sorted))
         ELSE <<x>> \o sorted

RECURSIVE SortByAmount(_, _)
SortByAmount(entries, acc) ==
    IF entries = <<>> THEN acc
    ELSE SortByAmount(Tail(entries), InsertByAmount(Head(entries), acc))

\* EligibleAt that asks for strictly more than the level.
EligibleAt_strictly_above(entries, amount) ==
    LET elig == SelectSeq(entries, LAMBDA en : en.amount > amount)
    IN [i \in 1 .. Len(elig) |-> elig[i].seat]

\* The seats of the entries that contributed at least `amount`.
EligibleAt(entries, amount) ==
    LET elig == SelectSeq(entries, LAMBDA en : en.amount >= amount)
    IN [i \in 1 .. Len(elig) |-> elig[i].seat]

\* LevelPot that counts the level difference once, whatever the number of seats.
LevelPot_single_share(eligible, level_diff) ==
    IF eligible # <<>>
    THEN <<[amount |-> level_diff, eligible_seats |-> eligible]>>
    ELSE <<>>

\* The side pot of one level (none if nobody is eligible).
LevelPot(eligible, level_diff) ==
    IF eligible # <<>>
    THEN <<[amount |-> level_diff * Len(eligible), eligible_seats |-> eligible]>>
    ELSE <<>>

RECURSIVE PotsFrom(_, _, _)
PotsFrom(rest, entries, prev_level) ==
    IF rest = <<>> THEN <<>>
    ELSE IF Head(rest).amount = prev_level THEN PotsFrom(Tail(rest), entries, prev_level)
    ELSE LevelPot(EligibleAt(entries, Head(rest).amount), Head(rest).amount - prev_level)
         \o PotsFrom(Tail(rest), entries, Head(rest).amount)

\* The (seat, amount > 0) entries in the order the HashMap yields them.
ContributionEntries(contributions, iter_order) ==
    LET keys == SelectSeq(iter_order, LAMBDA s : contributions[s] # 0)
    IN [i \in 1 .. Len(keys) |-> [seat |-> keys[i], amount |-> contributions[keys[i]]]]

\* The levels of compute_side_pots over the sorted entries.
PotsOfSorted(entries) == IF entries = <<>> THEN <<>> ELSE PotsFrom(entries, entries, 0)

\* compute_side_pots(&contributions); iter_order is the order in which the
\* HashMap yields its keys (arbitrary in Rust).
compute_side_pots(contributions, iter_order) ==
    PotsOfSorted(SortByAmount(ContributionEntries(contributions, iter_order), <<>>))

\* ---------------------------------------------------------- finishing a hand
update_busted_statuses_after_hand(t) ==
    [t EXCEPT !.seats = [s \in Seats |->
        IF IsSome(t.seats[s]) /\ t.seats[s].stack = 0
           /\ t.seats[s].status \notin {"Busted", "SittingOut"}
        THEN [t.seats[s] EXCEPT !.status = "Busted"]
        ELSE t.seats[s]]]

InHand(p) == IsSome(p) /\ p.status \in {"Active", "AllIn"}

count_active_players(t) == Cardinality({s \in Seats : InHand(t.seats[s])})

\* The first seat whose player is still in the hand.
FirstInHand(t) ==
    CHOOSE s \in Seats : InHand(t.seats[s]) /\ \A r \in Seats : InHand(t.seats[r]) => s <= r

\* finish_hand_without_showdown once the winner and the prize are known.
AwardWholePot(t, e, winner_seat, total_pot) ==
    [t |-> [update_busted_statuses_after_hand(
               [t EXCEPT !.street = "Showdown", !.seats[winner_seat].stack = @ + total_pot])
            EXCEPT !.total_pot = 0],
     e |-> [e EXCEPT !.history = @ \o
              <<[kind |-> "PotAwarded", seat |-> winner_seat,
                 player_id |-> t.seats[winner_seat].player_id, amount |-> total_pot],
                [kind |-> "HandFinished", hand_id |-> e.hand_id]>>]]

\* finish_hand_without_showdown awarding table.total_pot (always zero during a
\* hand) instead of engine.pot.total.
finish_hand_without_showdown_table_pot(t, e) ==
    AwardWholePot(t, e, FirstInHand(t), t.total_pot)

finish_hand_without_showdown(t, e) ==
    AwardWholePot(t, e, FirstInHand(t), e.pot)

\* evaluate_best_hand(hole_cards, board) of a seat.  The deck order is fixed by
\* the shuffle but nothing reads it before the showdown, so the strength of each
\* seat's seven cards (sd.rank) is resolved when the hands are evaluated.
evaluate_best_hand(sd, seat) == sd.rank[seat]

MaxRankOf(sd, cands) ==
    CHOOSE r \in 1 .. MaxRank :
        /\ \E i \in 1 .. Len(cands) : evaluate_best_hand(sd, cands[i]) = r
        /\ \A i \in 1 .. Len(cands) : evaluate_best_hand(sd, cands[i]) <= r

\* The eligible seats of a side pot that reach the showdown (neither Folded nor Busted).
ShowdownCandidates(t, sp) ==
    SelectSeq(sp.eligible_seats,
        LAMBDA s : IsSome(t.seats[s]) /\ t.seats[s].status \notin {"Folded", "Busted"})

\* The ShowdownReveal events pushed while a side pot's candidates are compared.
RevealHands(ctx, cands, sd) ==
    [ctx EXCEPT !.e.history = @ \o
        [i \in 1 .. Len(cands) |->
            [kind |-> "ShowdownReveal", seat |-> cands[i],
             player_id |-> ctx.t.seats[cands[i]].player_id,
             rank_value |-> evaluate_best_hand(sd, cands[i])]]]

\* The candidates with the best rank, in the order of the candidates.
Winners(cands, sd) ==
    SelectSeq(cands, LAMBDA s : evaluate_best_hand(sd, s) = MaxRankOf(sd, cands))

\* The prize of the i-th winner: amount / n, plus one chip of the remainder for
\* the first amount % n winners.
Prize(amount, n, i) == (amount \div n) + (IF i <= amount % n THEN 1 ELSE 0)

\* The split of one side pot among its winners; with no winner the pot is skipped.
PayWinners(ctx, sp, winners) ==
    IF winners = <<>> THEN ctx
    ELSE [t |-> [ctx.t EXCEPT !.seats = [s \in Seats |->
                    IF Contains(winners, s)
                    THEN [ctx.t.seats[s] EXCEPT !.stack =
                            @ + Prize(sp.amount, Len(winners), PositionOf(winners, s))]
                    ELSE ctx.t.seats[s]]],
          e |-> [ctx.e EXCEPT !.history = @ \o
                    [i \in 1 .. Len(winners) |->
                        [kind |-> "PotAwarded", seat |-> winners[i],
                         player_id |-> ctx.t.seats[winners[i]].player_id,
                         amount |-> Prize(sp.amount, Len(winners), i)]]]]

\* One side pot among its candidates.
AwardAmong(ctx, sp, sd, cands) ==
    PayWinners(RevealHands(ctx, cands, sd), sp,
               IF cands = <<>> THEN <<>> ELSE Winners(cands, sd))

\* The body of the loop over side pots in finish_hand_with_showdown.
AwardSidePot(ctx, sp, sd) ==
    IF sp.amount = 0 THEN ctx ELSE AwardAmong(ctx, sp, sd, ShowdownCandidates(ctx.t, sp))

RECURSIVE AwardSidePots(_, _, _)
AwardSidePots(ctx, pots, sd) ==
    IF pots = <<>> THEN ctx
    ELSE AwardSidePots(AwardSidePot(ctx, Head(pots), sd), Tail(pots), sd)

\* The end of finish_hand_with_showdown: HandFinished, total_pot, busted statuses.
CloseShowdown(ctx) ==
    [t |-> [update_busted_statuses_after_hand(ctx.t) EXCEPT !.total_pot = 0],
     e |-> history_push(ctx.e, [kind |-> "HandFinished", hand_id |-> ctx.e.hand_id])]

\* finish_hand_with_showdown once the side pots are computed.
AwardAll(t, e, side_pots, sd) ==
    CloseShowdown(AwardSidePots([t |-> [t EXCEPT !.street = "Showdown"],
                                 e |-> [e EXCEPT !.side_pots = side_pots]],
                                side_pots, sd))

finish_hand_with_showdown(t, e, sd) ==
    AwardAll(t, e, compute_side_pots(e.contributions, sd.iter_order), sd)

\* ------------------------------------------------------- street transitions
deal_board_cards(t, e, count, street) ==
    LET board == t.board \o [i \in 1 .. count |-> e.deck.drawn + i]
    IN [t |-> [t EXCEPT !.board = board, !.street = street],
        e |-> [e EXCEPT !.deck.drawn = @ + count,
                        !.history = @ \o <<[kind |-> "BoardDealt", street |-> street,
                                            cards |-> board],
                                           [kind |-> "StreetChanged", street |-> street]>>]]

\* The current_bet reset of reset_bets_for_new_street.
ClearBets(t) ==
    [t EXCEPT !.seats = [s \in Seats |->
        IF IsSome(t.seats[s]) THEN [t.seats[s] EXCEPT !.current_bet = 0] ELSE t.seats[s]]]

\* The new order of action: the Active seats from the first Active seat found
\* from the dealer on.
StreetOrder(t1, occupied) ==
    ActiveOnly(t1, Rotate(occupied, PositionOf(occupied, Head(ActiveOnly(t1, occupied))) - 1))

\* reset_bets_for_new_street once the bets are cleared: a new BettingState if
\* some player is Active, otherwise only current_actor = None.
ResetBetting(t1, e, street, occupied) ==
    IF ActiveOnly(t1, occupied) # <<>>
    THEN [t |-> t1,
          e |-> [e EXCEPT !.betting = BettingState_new(street, 0, t1.config.stakes.big_blind,
                                                       StreetOrder(t1, occupied)),
                          !.current_actor = IF StreetOrder(t1, occupied) = <<>> THEN NoSeat
                                            ELSE Head(StreetOrder(t1, occupied))]]
    ELSE [t |-> t1, e |-> [e EXCEPT !.current_actor = NoSeat]]

reset_bets_for_new_street(t, e, street) ==
    ResetBetting(ClearBets(t), e, street, collect_occupied_seats_from(t, t.dealer_button))

NextStreet(street) ==
    CASE street = "Preflop" -> "Flop"
      [] street = "Flop" -> "Turn"
      [] street = "Turn" -> "River"
      [] OTHER -> "Showdown"

\* BoardCount that deals three cards on every street.
BoardCount_always_three(street) == 3

BoardCount(street) == IF street = "Preflop" THEN 3 ELSE 1

\* Ok(Ongoing) of advance_if_needed.
OngoingStep(c) ==
    [t |-> c.t, e |-> c.e, ok |-> TRUE, ret |-> "Ongoing", via |-> "advance"]

\* One arm of the match on table.street for Preflop, Flop and Turn: deal the
\* board, reset the bets, Ok(Ongoing).
NextStreetStep(dealt, street) ==
    OngoingStep(reset_bets_for_new_street(dealt.t, dealt.e, street))

\* The River arm: the showdown, hand_in_progress = false, Ok(Finished).
ShowdownStep(c) ==
    [t |-> [c.t EXCEPT !.hand_in_progress = FALSE], e |-> c.e,
     ok |-> TRUE, ret |-> "Finished", via |-> "showdown"]

\* advance_if_needed whose match has lost the River arm: River falls through to
\* the Internal error.
advance_if_needed_without_river(t, e, sd) ==
    IF t.street \in {"Preflop", "Flop", "Turn"}
    THEN NextStreetStep(deal_board_cards(t, e, BoardCount(t.street), NextStreet(t.street)),
                        NextStreet(t.street))
    ELSE [t |-> t, e |-> e, ok |-> FALSE, ret |-> "Internal", via |-> "advance"]

\* advance_if_needed(table, engine): one street step, or the showdown.
advance_if_needed(t, e, sd) ==
    IF t.street \in {"Preflop", "Flop", "Turn"}
    THEN NextStreetStep(deal_board_cards(t, e, BoardCount(t.street), NextStreet(t.street)),
                        NextStreet(t.street))
    ELSE IF t.street = "River"
    THEN ShowdownStep(finish_hand_with_showdown(t, e, sd))
    ELSE [t |-> t, e |-> e, ok |-> FALSE, ret |-> "Internal", via |-> "advance"]

\* collect_betting_order_after_raise that queues nobody again.
collect_betting_order_after_raise_nobody(t, raiser_seat) == <<>>

\* ------------------------------------------------------------ apply_action
collect_betting_order_after_raise(t, raiser_seat) ==
    LET order == collect_occupied_seats_from(t, raiser_seat)
    IN IF Len(order) <= 1 THEN <<>>
       ELSE ActiveOnly(t, SubSeq(order, 2, Len(order)))

\* PlayerActed is recorded with its seat and player; no operation reads the rest
\* of its payload (action, new_stack, pot_after).
PushPlayerActed(ctx, seat) ==
    [ctx EXCEPT !.e.history = Append(@, [kind |-> "PlayerActed", seat |-> seat,
                                          player_id |-> ctx.t.seats[seat].player_id])]

\* The seat pays `want` chips, or its whole stack (and becomes AllIn) when the
\* stack is not larger.
PayChips(ctx, seat, want) ==
    LET p == ctx.t.seats[seat]
        paid == IF p.stack <= want THEN p.stack ELSE want
    IN [t |-> [ctx.t EXCEPT !.seats[seat] =
                  [p EXCEPT !.stack = @ - paid, !.current_bet = @ + paid,
                            !.status = IF p.stack <= want THEN "AllIn" ELSE @]],
        e |-> add_contribution(ctx.e, seat, paid)]

\* betting.on_raise with the seat's new bet; b is the betting state before the action.
RaiseTo(ctx, seat, b, raise_size) ==
    [ctx EXCEPT !.e.betting = on_raise(b, seat, ctx.t.seats[seat].current_bet, raise_size,
                                       collect_betting_order_after_raise(ctx.t, seat))]

\* The Raise arm after the chips moved: raise_size is the seat's new bet minus
\* the current bet before the action.
RaiseOver(ctx, seat, b) ==
    RaiseTo(ctx, seat, b, ctx.t.seats[seat].current_bet - b.current_bet)

\* The AllIn arm that reopens the betting only for a full raise.
AllInBetting_full_raise_only(ctx, seat, b) ==
    IF ctx.t.seats[seat].current_bet >= b.current_bet + b.min_raise
    THEN RaiseOver(ctx, seat, b)
    ELSE [ctx EXCEPT !.e.betting = mark_acted(b, seat)]

\* The AllIn arm after the chips moved: a raise if the new bet is above the
\* current bet, otherwise only mark_acted.
AllInBetting(ctx, seat, b) ==
    IF ctx.t.seats[seat].current_bet > b.current_bet
    THEN RaiseOver(ctx, seat, b)
    ELSE [ctx EXCEPT !.e.betting = mark_acted(b, seat)]

\* The match on action.kind in apply_action: the seat's chips and status,
\* the contributions and the betting state after the action.
ApplyKind(t, e, seat, kind) ==
    LET p == t.seats[seat]
        b == e.betting
        ctx == [t |-> t, e |-> e]
    IN CASE kind.k = "Fold" ->
              PushPlayerActed([ctx EXCEPT !.t.seats[seat].status = "Folded"], seat)
         [] kind.k = "Check" ->
              PushPlayerActed(ctx, seat)
         [] kind.k = "Call" ->
              PushPlayerActed(PayChips(ctx, seat, diff_to_call(p, b)), seat)
         [] kind.k = "Bet" ->
              PushPlayerActed(RaiseTo(PayChips(ctx, seat, kind.amount), seat, b, kind.amount),
                              seat)
         [] kind.k = "Raise" ->
              PushPlayerActed(RaiseOver(PayChips(ctx, seat, kind.amount - p.current_bet),
                                        seat, b), seat)
         [] kind.k = "AllIn" ->
              PushPlayerActed(AllInBetting(PayChips(ctx, seat, p.stack), seat, b), seat)

\* The precondition checks of apply_action, in order.
\* The preconditions with the turn check moved ahead of the player-identity check.
ApplyActionError_turn_first(t, e, action) ==
    IF ~t.hand_in_progress THEN "NoActiveHand"
    ELSE IF action.seat >= MaxSeats THEN "InvalidSeat"
    ELSE IF ~IsSome(t.seats[action.seat]) THEN "EmptySeat"
    ELSE IF e.current_actor # action.seat THEN "NotPlayersTurn"
    ELSE IF t.seats[action.seat].player_id # action.player_id THEN "PlayerNotAtTable"
    ELSE validate_action(t.seats[action.seat], action.kind, e.betting)

ApplyActionError(t, e, action) ==
    IF ~t.hand_in_progress THEN "NoActiveHand"
    ELSE IF action.seat >= MaxSeats THEN "InvalidSeat"
    ELSE IF ~IsSome(t.seats[action.seat]) THEN "EmptySeat"
    ELSE IF t.seats[action.seat].player_id # action.player_id THEN "PlayerNotAtTable"
    ELSE IF e.current_actor # action.seat THEN "NotPlayersTurn"
    ELSE validate_action(t.seats[action.seat], action.kind, e.betting)

\* Ok(Finished) after finish_hand_without_showdown.
AutoWinStep(c, remaining) ==
    [t |-> [c.t EXCEPT !.hand_in_progress = FALSE], e |-> c.e,
     ok |-> TRUE, ret |-> "Finished", via |-> "autowin", remaining |-> remaining]

\* The result of advance_if_needed handed back by apply_action.
AdvanceStep(r, remaining) ==
    [t |-> r.t, e |-> r.e, ok |-> r.ok, ret |-> r.ret, via |-> r.via, remaining |-> remaining]

\* apply_action after the match on action.kind: mark_acted, then the hand ends
\* without showdown, or the street advances, or the next seat is to act.
AfterAction(c, seat, sd) ==
    LET t1 == c.t
        e1 == [c.e EXCEPT !.betting = mark_acted(@, seat)]
        remaining == {s \in Seats : InHand(t1.seats[s])}
    IN IF count_active_players(t1) = 1
       THEN AutoWinStep(finish_hand_without_showdown(t1, e1), remaining)
       ELSE IF is_round_complete(e1.betting)
       THEN AdvanceStep(advance_if_needed(t1, e1, sd), remaining)
       ELSE [t |-> t1,
             e |-> [e1 EXCEPT !.current_actor = Head(e1.betting.to_act)],
             ok |-> TRUE, ret |-> "Ongoing", via |-> "next", remaining |-> remaining]

\* apply_action(table, engine, action).  `remaining` is the set of seats
\* counted by count_active_players after the action; `via` tells how the call ended.
apply_action(t, e, action, sd) ==
    IF ApplyActionError(t, e, action) # "Ok"
    THEN [t |-> t, e |-> e, ok |-> FALSE, ret |-> ApplyActionError(t, e, action),
          via |-> "error", remaining |-> {}]
    ELSE AfterAction(ApplyKind(t, e, action.seat, action.kind), action.seat, sd)

\* ------------------------------------------------------------- tournaments
TournamentIds == 1 .. MaxTournaments

TourPlayers == 1 .. MaxPlayers

NoTs == -1

NoTable == 0

NoPlace == 0

NoWinner == 0

\* BlindLevel::validate
BlindLevel_validate(lvl) ==
    /\ lvl.small_blind # 0
    /\ lvl.big_blind # 0
    /\ lvl.big_blind > lvl.small_blind
    /\ lvl.duration_minutes # 0

\* BlindStructure::validate: levels are valid and numbered 1, 2, 3, ...
BlindStructure_validate(bs) ==
    /\ bs.levels # <<>>
    /\ \A i \in 1 .. Len(bs.levels) :
          BlindLevel_validate(bs.levels[i]) /\ bs.levels[i].level = i

\* BlindStructure::level_by_number(number).is_some()
level_by_number_is_some(bs, number) ==
    \E i \in 1 .. Len(bs.levels) : bs.levels[i].level = number

\* TournamentScheduleConfig::validate
TournamentScheduleConfig_validate(sch) ==
    sch.break_every_minutes # 0 /\ sch.break_duration_minutes # 0

\* TableBalancingConfig::validate
TableBalancingConfig_validate(bal, table_size) ==
    \/ ~bal.enabled
    \/ (bal.max_seat_diff # 0 /\ bal.max_seat_diff < table_size)

\* TournamentConfig::validate_full
validate_full(c) ==
    /\ c.name # ""
    /\ c.starting_stack # 0
    /\ c.max_players # 0
    /\ c.min_players_to_start # 0
    /\ c.min_players_to_start <= c.max_players
    /\ c.table_size >= 2 /\ c.table_size <= 9
    /\ ~(c.reentry_allowed /\ c.max_entries_per_player < 2)
    /\ ~(~c.reentry_allowed /\ c.max_entries_per_player # 1)
    /\ BlindStructure_validate(c.blind_structure)
    /\ ~(c.late_reg_level > 0 /\ ~level_by_number_is_some(c.blind_structure, c.late_reg_level))
    /\ TournamentScheduleConfig_validate(c.schedule)
    /\ TableBalancingConfig_validate(c.balancing, c.table_size)

NoTournament == [present |-> FALSE]

NoRegistration == [present |-> FALSE]

\* Tournament::new
Tournament_new(id, owner, config) ==
    IF ~validate_full(config)
    THEN [ok |-> FALSE, ret |-> "InvalidConfig", t |-> NoTournament]
    ELSE [ok |-> TRUE, ret |-> "Ok",
          t |-> [present |-> TRUE, id |-> id, owner |-> owner, config |-> config,
                 status |-> "Registering",
                 registrations |-> [p \in TourPlayers |-> NoRegistration],
                 current_level |-> 1, started_at_ts |-> NoTs, level_started_at_ts |-> NoTs,
                 break_started_at_ts |-> NoTs, total_entries |-> 0, finished_count |-> 0,
                 winner_id |-> NoWinner]]

Registered(t) == {p \in DOMAIN t.registrations : t.registrations[p].present}

\* Tournament::active_players
active_players(t) == {p \in Registered(t) : ~t.registrations[p].is_busted}

\* Tournament::active_player_count
active_player_count(t) == Cardinality(active_players(t))

\* can_start_now that ignores the schedule.
can_start_now_any_time(t, now_ts) ==
    IF t.status # "Registering" THEN FALSE
    ELSE IF active_player_count(t) < t.config.min_players_to_start THEN FALSE
    ELSE TRUE

\* Tournament::can_start_now
can_start_now(t, now_ts) ==
    IF t.status # "Registering" THEN FALSE
    ELSE IF active_player_count(t) < t.config.min_players_to_start THEN FALSE
    ELSE IF t.config.schedule.scheduled_start_ts = 0 THEN TRUE
    ELSE IF now_ts >= t.config.schedule.scheduled_start_ts THEN TRUE
    ELSE t.config.schedule.allow_start_earlier

\* Tournament::start that does not record the number of entries.
Tournament_start_without_entries(t, now_ts) ==
    IF ~can_start_now(t, now_ts)
    THEN [t |-> t, ok |-> FALSE, ret |-> "InvalidStatusForStart"]
    ELSE [t |-> [t EXCEPT !.status = "Running", !.started_at_ts = now_ts,
                          !.level_started_at_ts = now_ts, !.break_started_at_ts = NoTs,
                          !.current_level = 1, !.total_entries = 0,
                          !.finished_count = 0, !.winner_id = NoWinner],
          ok |-> TRUE, ret |-> "Ok"]

\* Tournament::start
Tournament_start(t, now_ts) ==
    IF ~can_start_now(t, now_ts)
    THEN [t |-> t, ok |-> FALSE, ret |-> "InvalidStatusForStart"]
    ELSE [t |-> [t EXCEPT !.status = "Running", !.started_at_ts = now_ts,
                          !.level_started_at_ts = now_ts, !.break_started_at_ts = NoTs,
                          !.current_level = 1, !.total_entries = active_player_count(t),
                          !.finished_count = 0, !.winner_id = NoWinner],
          ok |-> TRUE, ret |-> "Ok"]

\* Tournament::register_player
Tournament_register_player(t, player_id) ==
    IF t.status # "Registering" THEN [t |-> t, ok |-> FALSE, ret |-> "InvalidStatus"]
    ELSE IF Cardinality(Registered(t)) >= t.config.max_players
    THEN [t |-> t, ok |-> FALSE, ret |-> "TournamentFull"]
    ELSE IF t.registrations[player_id].present
    THEN [t |-> t, ok |-> FALSE, ret |-> "AlreadyRegistered"]
    ELSE [t |-> [t EXCEPT !.registrations[player_id] =
                    [present |-> TRUE, player_id |-> player_id,
                     total_chips |-> t.config.starting_stack, is_busted |-> FALSE,
                     table_id |-> NoTable, seat_index |-> NoSeat,
                     finishing_place |-> NoPlace]],
          ok |-> TRUE, ret |-> "Ok"]

\* check_and_finish_if_needed that leaves the winner without a finishing place.
check_and_finish_if_needed_without_place(t) ==
    IF t.status = "Finished" THEN t
    ELSE IF active_player_count(t) = 0
    THEN [t EXCEPT !.status = "Finished", !.winner_id = NoWinner]
    ELSE IF active_player_count(t) = 1
    THEN [t EXCEPT !.status = "Finished",
                   !.winner_id = CHOOSE p \in active_players(t) : TRUE]
    ELSE t

\* Tournament::check_and_finish_if_needed
check_and_finish_if_needed(t) ==
    IF t.status = "Finished" THEN t
    ELSE IF active_player_count(t) = 0
    THEN [t EXCEPT !.status = "Finished", !.winner_id = NoWinner]
    ELSE IF active_player_count(t) = 1
    THEN LET winner == CHOOSE p \in active_players(t) : TRUE
         IN [t EXCEPT !.status = "Finished", !.winner_id = winner,
                      !.registrations[winner].finishing_place =
                          IF @ = NoPlace THEN 1 ELSE @]
    ELSE t

\* mark_player_busted that also accepts a tournament on a break.
mark_player_busted_on_break(t, player_id) ==
    IF t.status \notin {"Running", "OnBreak"} THEN [t |-> t, ok |-> FALSE, ret |-> "InvalidStatus", place |-> NoPlace]
    ELSE IF active_player_count(t) <= 1
    THEN [t |-> t, ok |-> FALSE, ret |-> "CannotBustLastPlayer", place |-> NoPlace]
    ELSE LET t1 == IF t.total_entries = 0
                   THEN [t EXCEPT !.total_entries = active_player_count(t)]
                   ELSE t
         IN IF ~t1.registrations[player_id].present
            THEN [t |-> t1, ok |-> FALSE, ret |-> "NotRegistered", place |-> NoPlace]
            ELSE IF t1.registrations[player_id].is_busted
            THEN [t |-> t1, ok |-> FALSE, ret |-> "AlreadyBusted", place |-> NoPlace]
            ELSE LET finishing_place ==
                         IF t1.total_entries >= t1.finished_count
                         THEN t1.total_entries - t1.finished_count ELSE 0
                     t2 == [t1 EXCEPT !.registrations[player_id].is_busted = TRUE,
                                      !.registrations[player_id].finishing_place = finishing_place,
                                      !.registrations[player_id].table_id = NoTable,
                                      !.registrations[player_id].seat_index = NoSeat,
                                      !.finished_count = @ + 1]
                 IN [t |-> check_and_finish_if_needed(t2), ok |-> TRUE, ret |-> "Ok",
                     place |-> finishing_place]

\* Tournament::mark_player_busted: total_entries is filled in before the player
\* is looked up, so the NotRegistered and AlreadyBusted errors return the
\* tournament as that assignment left it.
mark_player_busted(t, player_id) ==
    IF t.status # "Running" THEN [t |-> t, ok |-> FALSE, ret |-> "InvalidStatus", place |-> NoPlace]
    ELSE IF active_player_count(t) <= 1
    THEN [t |-> t, ok |-> FALSE, ret |-> "CannotBustLastPlayer", place |-> NoPlace]
    ELSE LET t1 == IF t.total_entries = 0
                   THEN [t EXCEPT !.total_entries = active_player_count(t)]
                   ELSE t
         IN IF ~t1.registrations[player_id].present
            THEN [t |-> t1, ok |-> FALSE, ret |-> "NotRegistered", place |-> NoPlace]
            ELSE IF t1.registrations[player_id].is_busted
            THEN [t |-> t1, ok |-> FALSE, ret |-> "AlreadyBusted", place |-> NoPlace]
            ELSE LET finishing_place ==
                         IF t1.total_entries >= t1.finished_count
                         THEN t1.total_entries - t1.finished_count ELSE 0
                     t2 == [t1 EXCEPT !.registrations[player_id].is_busted = TRUE,
                                      !.registrations[player_id].finishing_place = finishing_place,
                                      !.registrations[player_id].table_id = NoTable,
                                      !.registrations[player_id].seat_index = NoSeat,
                                      !.finished_count = @ + 1]
                 IN [t |-> check_and_finish_if_needed(t2), ok |-> TRUE, ret |-> "Ok",
                     place |-> finishing_place]

\* BlindStructure::level_for_elapsed_minutes: the first level whose accumulated
\* duration exceeds the elapsed minutes, else the last level.
RECURSIVE LevelFrom(_, _, _, _)
LevelFrom(levels, i, acc, elapsed_minutes) ==
    IF i > Len(levels) THEN levels[Len(levels)]
    ELSE IF elapsed_minutes < acc + levels[i].duration_minutes THEN levels[i]
    ELSE LevelFrom(levels, i + 1, acc + levels[i].duration_minutes, elapsed_minutes)

level_for_elapsed_minutes(bs, elapsed_minutes) == LevelFrom(bs.levels, 1, 0, elapsed_minutes)

\* (now_ts.saturating_sub(started_at) / 60)
total_elapsed_minutes(t, now_ts) ==
    (IF now_ts >= t.started_at_ts THEN now_ts - t.started_at_ts ELSE 0) \div 60

\* cycle_pos that never wraps around the cycle.
cycle_pos_without_cycle(t, now_ts) == total_elapsed_minutes(t, now_ts)

\* The position inside the cycle "play + break" in apply_time_tick.
cycle_pos(t, now_ts) ==
    total_elapsed_minutes(t, now_ts)
        % (t.config.schedule.break_every_minutes + t.config.schedule.break_duration_minutes)

\* update_level_for_time that also advances to the level it is already on.
update_level_for_time_on_equal(t, now_ts) ==
    IF t.started_at_ts = NoTs THEN [t |-> t, ev |-> "None"]
    ELSE IF level_for_elapsed_minutes(t.config.blind_structure,
                                      total_elapsed_minutes(t, now_ts)).level >= t.current_level
    THEN [t |-> [t EXCEPT !.current_level =
                            level_for_elapsed_minutes(t.config.blind_structure,
                                                      total_elapsed_minutes(t, now_ts)).level,
                          !.level_started_at_ts = now_ts],
          ev |-> "LevelAdvanced"]
    ELSE [t |-> t, ev |-> "None"]

\* Tournament::update_level_for_time
update_level_for_time(t, now_ts) ==
    IF t.started_at_ts = NoTs THEN [t |-> t, ev |-> "None"]
    ELSE IF level_for_elapsed_minutes(t.config.blind_structure,
                                      total_elapsed_minutes(t, now_ts)).level > t.current_level
    THEN [t |-> [t EXCEPT !.current_level =
                            level_for_elapsed_minutes(t.config.blind_structure,
                                                      total_elapsed_minutes(t, now_ts)).level,
                          !.level_started_at_ts = now_ts],
          ev |-> "LevelAdvanced"]
    ELSE [t |-> t, ev |-> "None"]

\* The event returned when a break ends: the level event, or BreakEnded.
BreakEnded(r) == [t |-> r.t, ev |-> IF r.ev = "None" THEN "BreakEnded" ELSE r.ev]

\* apply_time_tick that returns early only while the tournament is Registering.
apply_time_tick_after_finish(t, now_ts) ==
    IF t.status = "Registering" THEN [t |-> t, ev |-> "None"]
    ELSE IF t.started_at_ts = NoTs THEN [t |-> t, ev |-> "None"]
    ELSE IF t.status = "Running"
    THEN IF cycle_pos(t, now_ts) >= t.config.schedule.break_every_minutes
         THEN [t |-> [t EXCEPT !.status = "OnBreak", !.break_started_at_ts = now_ts],
               ev |-> "BreakStarted"]
         ELSE update_level_for_time(t, now_ts)
    ELSE IF cycle_pos(t, now_ts) < t.config.schedule.break_every_minutes
         THEN BreakEnded(update_level_for_time(
                  [t EXCEPT !.status = "Running", !.break_started_at_ts = NoTs], now_ts))
         ELSE [t |-> t, ev |-> "None"]

\* Tournament::apply_time_tick
apply_time_tick(t, now_ts) ==
    IF t.status \in {"Finished", "Registering"} THEN [t |-> t, ev |-> "None"]
    ELSE IF t.started_at_ts = NoTs THEN [t |-> t, ev |-> "None"]
    ELSE IF t.status = "Running"
    THEN IF cycle_pos(t, now_ts) >= t.config.schedule.break_every_minutes
         THEN [t |-> [t EXCEPT !.status = "OnBreak", !.break_started_at_ts = now_ts],
               ev |-> "BreakStarted"]
         ELSE update_level_for_time(t, now_ts)
    ELSE IF cycle_pos(t, now_ts) < t.config.schedule.break_every_minutes
         THEN BreakEnded(update_level_for_time(
                  [t EXCEPT !.status = "Running", !.break_started_at_ts = NoTs], now_ts))
         ELSE [t |-> t, ev |-> "None"]

\* TournamentLobby::new
TournamentLobby_new ==
    [tournaments |-> [id \in TournamentIds |-> NoTournament], next_tournament_id |-> 1]

\* TournamentLobby::create_tournament: the id is taken and the counter advanced
\* before Tournament::new validates the configuration.
create_tournament(l, owner, config) ==
    LET id == l.next_tournament_id
        l1 == [l EXCEPT !.next_tournament_id = @ + 1]
        r == Tournament_new(id, owner, config)
    IN IF ~r.ok
       THEN [l |-> l1, ok |-> FALSE, ret |-> r.ret, id |-> 0]
       ELSE [l |-> [l1 EXCEPT !.tournaments[id] = r.t], ok |-> TRUE, ret |-> "Ok", id |-> id]

\* TournamentLobby::get(id).is_some()
lobby_has(l, tournament_id) ==
    tournament_id \in TournamentIds /\ l.tournaments[tournament_id].present

\* TournamentLobby::register_player
register_player(l, tournament_id, player_id) ==
    IF ~lobby_has(l, tournament_id)
    THEN [l |-> l, ok |-> FALSE, ret |-> "TournamentNotFound"]
    ELSE LET r == Tournament_register_player(l.tournaments[tournament_id], player_id)
         IN [l |-> [l EXCEPT !.tournaments[tournament_id] = r.t], ok |-> r.ok, ret |-> r.ret]

\* ------------------------------------------------- the table under its manager
VARIABLES table, engine, lobby, result

vars == <<table, engine, lobby, result>>

Result(op, r, seat) ==
    [op |-> op, ok |-> r.ok, ret |-> r.ret, via |-> r.via, remaining |-> r.remaining,
     seat |-> seat]

\* A table between two hands: every seat is empty, holds a fresh player with the
\* starting stack, or holds a player who lost the whole stack in an earlier hand
\* (update_busted_statuses_after_hand left it Busted with no chips).
SeatStates == {"empty", "fresh", "busted"}

Seatings == [Seats -> SeatStates]

SeatedPlayer(seat, st) ==
    CASE st = "empty" -> NoPlayer
      [] st = "fresh" -> PlayerAtTable_new(PlayerIdOf(seat), MaxStack)
      [] st = "busted" -> [PlayerAtTable_new(PlayerIdOf(seat), 0) EXCEPT !.status = "Busted"]

SeatedTable(stakes, seating) ==
    [Table_new(stakes) EXCEPT !.seats = [s \in Seats |-> SeatedPlayer(s, seating[s])]]

InitHand ==
    /\ \E stakes \in StakesChoices, seating \in Seatings :
          table = SeatedTable(stakes, seating)
    /\ engine = NoEngine
    /\ lobby = TournamentLobby_new
    /\ result = [op |-> "new", ok |-> TRUE, ret |-> "Ok", via |-> "new", remaining |-> {},
                 seat |-> NoSeat]

\* Orders in which a HashMap over the seats can yield its keys (Rust leaves the
\* order unspecified): the ascending and the descending order are tried.
IterOrders == {[i \in 1 .. MaxSeats |-> i - 1], [i \in 1 .. MaxSeats |-> MaxSeats - i]}

\* What a showdown depends on besides the table and the engine: the strength of
\* each seat's hand (the shuffle) and the iteration order of `contributions`.
\* Only the relative strength of the hands that are compared matters: seats that
\* are not in the hand get strength 1 and the strongest hand gets MaxRank.
NoShowdown == [rank |-> [s \in Seats |-> 1], iter_order |-> [i \in 1 .. MaxSeats |-> i - 1]]

Strengths(t) ==
    {f \in [Seats -> 1 .. MaxRank] :
        /\ \A s \in Seats : ~InHand(t.seats[s]) => f[s] = 1
        /\ (\E s \in Seats : InHand(t.seats[s])) => (\E s \in Seats : InHand(t.seats[s]) /\ f[s] = MaxRank)}

Showdowns(t) == {[rank |-> rk, iter_order |-> o] : rk \in Strengths(t), o \in IterOrders}

\* TableManager::start_hand hands the engine's result back: the new engine is
\* stored on success; the table is the one start_hand worked on.
ReturnFromStart(r) ==
    /\ table' = r.t
    /\ engine' = IF r.ok THEN r.e ELSE engine
    /\ result' = [op |-> "start_hand", ok |-> r.ok, ret |-> r.ret, via |-> "start",
                  remaining |-> {}, seat |-> NoSeat]

\* TableManager::start_hand
StartHand ==
    /\ table.current_hand_id < MaxHands
    /\ ReturnFromStart(start_hand(table, [drawn |-> 0], table.current_hand_id + 1))
    /\ UNCHANGED lobby

\* The showdown inputs an action can meet: a shuffle and an iteration order if
\* the action ends the hand by showdown, none otherwise.
ShowdownsFor(probe) ==
    IF probe.via = "showdown" THEN Showdowns(table) ELSE {NoShowdown}

\* TableManager::apply_action hands the engine's result back; the engine is kept
\* in the ManagedTable also after the hand has finished.
ReturnFromApply(r, action) ==
    /\ table' = r.t
    /\ engine' = r.e
    /\ result' = Result("apply_action", r, IF r.ok THEN action.seat ELSE NoSeat)

\* TableManager::apply_action
ApplyAction ==
    /\ UNCHANGED lobby
    /\ \E action \in PlayerActions(IF engine.present THEN engine.current_actor ELSE NoSeat) :
       IF ~engine.present
       THEN /\ result' = [op |-> "apply_action", ok |-> FALSE, ret |-> "ManagerNoActiveHand",
                          via |-> "error", remaining |-> {}, seat |-> NoSeat]
            /\ UNCHANGED <<table, engine>>
       ELSE \E sd \in ShowdownsFor(apply_action(table, engine, action, NoShowdown)) :
               ReturnFromApply(apply_action(table, engine, action, sd), action)

NextHand == StartHand \/ ApplyAction

SpecHand == InitHand /\ [][NextHand]_vars

\* ------------------------------------------------- the lobby and its tournaments
\* Configurations a front end can send: the name may be empty, the cap and the
\* minimum to start may disagree, the start may be scheduled or by button.
BaseConfig ==
    [name |-> "main", starting_stack |-> MaxStack, max_players |-> MaxPlayers,
     min_players_to_start |-> 2, table_size |-> 2, freezeout |-> TRUE,
     reentry_allowed |-> FALSE, max_entries_per_player |-> 1, late_reg_level |-> 0,
     blind_structure |-> [levels |-> <<[level |-> 1, small_blind |-> 1, big_blind |-> 2,
                                        ante |-> 0, ante_type |-> "None",
                                        duration_minutes |-> 1]>>],
     auto_approve |-> TRUE,
     schedule |-> [scheduled_start_ts |-> 0, allow_start_earlier |-> TRUE,
                   break_every_minutes |-> 60, break_duration_minutes |-> 5],
     balancing |-> [enabled |-> TRUE, max_seat_diff |-> 1]]

ConfigChoices ==
    {[BaseConfig EXCEPT !.name = nm, !.max_players = mp, !.min_players_to_start = mn,
                        !.schedule.scheduled_start_ts = ts,
                        !.schedule.allow_start_earlier = early] :
        nm \in {"", "main"}, mp \in {1, 2, MaxPlayers}, mn \in {1, 2}, ts \in {0, MaxTime},
        early \in BOOLEAN}

\* Configurations that differ in the entry rules: the freezeout flag, re-entry
\* and the number of entries per player.
EntryConfigChoices ==
    {[BaseConfig EXCEPT !.freezeout = fz, !.reentry_allowed = re,
                        !.max_entries_per_player = me] :
        fz \in BOOLEAN, re \in BOOLEAN, me \in {0, 1, 2}}

TourResult(op, ok, ret) ==
    [op |-> op, ok |-> ok, ret |-> ret, via |-> "lobby", remaining |-> {}, seat |-> NoSeat]

InitTour ==
    /\ table = Table_new(CHOOSE st \in StakesChoices : st.ante_type = "None")
    /\ engine = NoEngine
    /\ lobby = TournamentLobby_new
    /\ result = TourResult("new", TRUE, "Ok")

\* TournamentLobby::create_tournament
CreateTournament ==
    /\ lobby.next_tournament_id <= MaxTournaments
    /\ \E config \in ConfigChoices \cup EntryConfigChoices :
          LET r == create_tournament(lobby, 1, config)
          IN /\ lobby' = r.l
             /\ result' = TourResult("create_tournament", r.ok, r.ret)
    /\ UNCHANGED <<table, engine>>

\* TournamentLobby::register_player
RegisterPlayer ==
    /\ \E tournament_id \in 1 .. (MaxTournaments + 1), player_id \in TourPlayers :
          LET r == register_player(lobby, tournament_id, player_id)
          IN /\ lobby' = r.l
             /\ result' = TourResult("register_player", r.ok, r.ret)
    /\ UNCHANGED <<table, engine>>

\* Tournament::start on a tournament of the lobby (TournamentLobby::get_mut)
StartTournament ==
    /\ \E tournament_id \in TournamentIds, now_ts \in 0 .. MaxTime :
          /\ lobby_has(lobby, tournament_id)
          /\ LET r == Tournament_start(lobby.tournaments[tournament_id], now_ts)
             IN /\ lobby' = [lobby EXCEPT !.tournaments[tournament_id] = r.t]
                /\ result' = TourResult("start", r.ok, r.ret)
    /\ UNCHANGED <<table, engine>>

\* Tournament::mark_player_busted on a tournament of the lobby
MarkPlayerBusted ==
    /\ \E tournament_id \in TournamentIds, player_id \in TourPlayers :
          /\ lobby_has(lobby, tournament_id)
          /\ LET r == mark_player_busted(lobby.tournaments[tournament_id], player_id)
             IN /\ lobby' = [lobby EXCEPT !.tournaments[tournament_id] = r.t]
                /\ result' = TourResult("mark_player_busted", r.ok, r.ret)
    /\ UNCHANGED <<table, engine>>

\* The clock readings handed to apply_time_tick: the first seconds, the start of
\* the first break and the end of the first cycle of the schedule.
TickTimes ==
    (0 .. MaxTime)
    \cup {60 * BaseConfig.schedule.break_every_minutes,
          60 * (BaseConfig.schedule.break_every_minutes
                + BaseConfig.schedule.break_duration_minutes)}

ApplyTimeTick ==
    /\ \E tournament_id \in TournamentIds, now_ts \in TickTimes :
          /\ lobby_has(lobby, tournament_id)
          /\ lobby' = [lobby EXCEPT !.tournaments[tournament_id] =
                          apply_time_tick(lobby.tournaments[tournament_id], now_ts).t]
          /\ result' = TourResult("apply_time_tick", TRUE,
                          apply_time_tick(lobby.tournaments[tournament_id], now_ts).ev)
    /\ UNCHANGED <<table, engine>>

NextTour ==
    CreateTournament \/ RegisterPlayer \/ StartTournament \/ MarkPlayerBusted \/ ApplyTimeTick

SpecTour == InitTour /\ [][NextTour]_vars

\* ------------------------------------------------------- tournament claims
\* C4: whenever create_tournament, register_player, start or mark_player_busted
\* returns an error, nothing of the lobby or of its tournaments has changed: the
\* registrations, total_entries, finished_count, the status and the lobby's next
\* tournament id are as before the call.
C4_TournamentErrorLeavesStateUnchanged ==
    [][(~result'.ok) => lobby' = lobby]_vars


\* ------------------------------------------------------ hand-engine claims
PotAwards(e) == SelectSeq(e.history, LAMBDA ev : ev.kind = "PotAwarded")

BlindsPostedEvents(e) == SelectSeq(e.history, LAMBDA ev : ev.kind = "BlindsPosted")

Eligible(t) == {s \in Seats : IsSome(t.seats[s]) /\ t.seats[s].status \notin {"Busted", "SittingOut"}}

\* C1: in every state reached through start_hand and apply_action, the sum of
\* contributions[seat] over all seats equals pot.total.
C1_ContributionsSumToPot ==
    engine.present => SumOver(engine.contributions, Seats) = engine.pot

\* C1 witness: an action has been applied and at least two seats have chips in the pot.
C1_Witness ==
    /\ engine.present /\ result.op = "apply_action" /\ result.ok
    /\ Cardinality({s \in Seats : engine.contributions[s] > 0}) >= 2
    /\ engine.pot >= 3

\* C2: when a hand is resolved by showdown, the PotAwarded amounts sum to pot.total.
C2_ShowdownAwardsWholePot ==
    (engine.present /\ result.op = "apply_action" /\ result.via = "showdown")
        => SumAmounts(PotAwards(engine)) = engine.pot

\* C3: whenever start_hand or apply_action returns an error, the Table and the
\* HandEngine are exactly as before the call (no event appended either).
C3_ErrorLeavesStateUnchanged ==
    [][(~result'.ok) => (table' = table /\ engine' = engine)]_vars

\* C3 witness: apply_action has been rejected in the middle of a hand.
C3_Witness ==
    /\ engine.present /\ table.hand_in_progress
    /\ result.op = "apply_action" /\ ~result.ok /\ result.ret = "CannotCheck"

\* C5: whenever hand_in_progress is false, current_actor is None and to_act is empty.
C5_NoActorBetweenHands ==
    (engine.present /\ ~table.hand_in_progress)
        => (engine.current_actor = NoSeat /\ engine.betting.to_act = <<>>)

\* C6: if current_actor is Some(s), seat s holds an Active player and s is in to_act.
C6_ActorIsActiveAndQueued ==
    (engine.present /\ engine.current_actor # NoSeat)
        => /\ table.seats[engine.current_actor].status = "Active"
           /\ Contains(engine.betting.to_act, engine.current_actor)

\* C7: when start_hand runs with exactly two eligible players, the dealer button
\* is the small blind and the other seat is the big blind.
C7_HeadsUpDealerIsSmallBlind ==
    (engine.present /\ result.op = "start_hand" /\ result.ok
     /\ Cardinality(Eligible(table)) = 2 /\ BlindsPostedEvents(engine) # <<>>)
        => LET ev == Head(BlindsPostedEvents(engine))
           IN /\ table.dealer_button = ev.small_blind.seat
              /\ ev.big_blind.seat # ev.small_blind.seat

\* C8: start_hand returns NotEnoughPlayers and starts no hand whenever fewer than
\* two seats hold a player that is neither Busted nor SittingOut.
C8_FewerThanTwoEligibleIsRejected ==
    [][(result'.op = "start_hand" /\ ~table.hand_in_progress
        /\ Cardinality(Eligible(table)) < 2)
          => (result'.ret = "NotEnoughPlayers" /\ table' = table /\ engine' = engine)]_vars

\* C9: the hand never waits for input with current_actor = None: when only
\* AllIn players remain the engine runs the hand out to the showdown.
C9_NeverWaitsWithoutActor ==
    (engine.present /\ table.hand_in_progress) => engine.current_actor # NoSeat

\* C10: after an applied action, if exactly one seat remains Active or AllIn the
\* hand ends at once: that seat's stack grows by pot.total, hand_in_progress is
\* false, the street is Showdown and the call returns Finished.
C10_LastPlayerWinsPot ==
    [][(result'.op = "apply_action" /\ result'.ok /\ Cardinality(result'.remaining) = 1)
          => LET w == CHOOSE s \in result'.remaining : TRUE
                 paid == IF w = result'.seat THEN engine'.pot - engine.pot ELSE 0
             IN /\ result'.ret = "Finished"
                /\ ~table'.hand_in_progress
                /\ table'.street = "Showdown"
                /\ table'.seats[w].stack = table.seats[w].stack - paid + engine'.pot]_vars

\* C10 witness: a fold has left one player in a hand with chips in the pot.
C10_Witness ==
    /\ engine.present /\ result.op = "apply_action" /\ result.ok
    /\ Cardinality(result.remaining) = 1 /\ result.via = "autowin"
    /\ engine.pot > 0 /\ ~table.hand_in_progress

C12_FirstFailingPreconditionIsReported ==
    engine.present =>
        \A action \in PlayerActions(engine.current_actor) :
            LET ret == apply_action(table, engine, action, NoShowdown).ret
                seat == action.seat
            IN  IF ~table.hand_in_progress THEN ret = "NoActiveHand"
                ELSE IF seat >= MaxSeats THEN ret = "InvalidSeat"
                ELSE IF ~IsSome(table.seats[seat]) THEN ret = "EmptySeat"
                ELSE IF table.seats[seat].player_id # action.player_id
                     THEN ret = "PlayerNotAtTable"
                ELSE IF engine.current_actor # seat THEN ret = "NotPlayersTurn"
                ELSE ret \notin {"NoActiveHand", "InvalidSeat", "EmptySeat",
                                 "PlayerNotAtTable", "NotPlayersTurn"}

\* C12 witness: an action for an empty seat, which is also not the seat to act,
\* was answered with EmptySeat during a hand.
C12_Witness ==
    /\ engine.present /\ table.hand_in_progress
    /\ result.op = "apply_action" /\ ~result.ok /\ result.ret = "EmptySeat"
    /\ \E s \in Seats : ~IsSome(table.seats[s]) /\ engine.current_actor # s

\* ------------------------------------------------- validate_action called directly
\* The players validate_action is handed by apply_action: the seat to act, which is
\* Active, with a street bet that the betting state covers.
ValidatePlayers ==
    {[PlayerAtTable_new(PlayerIdOf(0), stack) EXCEPT !.current_bet = bet] :
        stack \in 0 .. MaxStack, bet \in Amounts}

ValidateBettings ==
    {BettingState_new("Preflop", current_bet, min_raise, <<0>>) :
        current_bet \in Amounts, min_raise \in 1 .. MaxStack}

ValidateCall(op, ret, player, kind, betting) ==
    [op |-> op, ok |-> ret = "Ok", ret |-> ret, via |-> "validation", remaining |-> {},
     seat |-> 0, player |-> player, kind |-> kind, betting |-> betting]

InitValidate ==
    /\ table = Table_new(CHOOSE st \in StakesChoices : st.ante_type = "None")
    /\ engine = NoEngine
    /\ lobby = TournamentLobby_new
    /\ \E player \in ValidatePlayers, kind \in ActionKinds, betting \in ValidateBettings :
          /\ player.current_bet <= betting.current_bet
          /\ result = ValidateCall("arguments", "None", player, kind, betting)

ValidateAction ==
    /\ result.op = "arguments"
    /\ result' = ValidateCall("validate_action",
                              validate_action(result.player, result.kind, result.betting),
                              result.player, result.kind, result.betting)
    /\ UNCHANGED <<table, engine, lobby>>

NextValidate == ValidateAction

SpecValidate == InitValidate /\ [][NextValidate]_vars

\* C13: a Raise(target) by the current actor is accepted if and only if
\* betting.current_bet > 0, target > betting.current_bet,
\* target - betting.current_bet >= betting.min_raise and
\* player.stack >= target - player.current_bet; in every other case it is rejected
\* with IllegalAction, RaiseTooSmall or NotEnoughChips.
C13_RaiseAcceptedIffLegal ==
    (result.op = "validate_action" /\ result.kind.k = "Raise") =>
        LET p == result.player
            b == result.betting
            target == result.kind.amount
            legal == /\ b.current_bet > 0
                     /\ target > b.current_bet
                     /\ target - b.current_bet >= b.min_raise
                     /\ p.stack >= target - p.current_bet
        IN  /\ result.ok <=> legal
            /\ ~result.ok => result.ret \in {"IllegalAction", "RaiseTooSmall", "NotEnoughChips"}

\* C13 witness: a Raise that is exactly the minimum raise and takes the whole
\* stack was accepted.
C13_Witness ==
    /\ result.op = "validate_action" /\ result.kind.k = "Raise" /\ result.ok
    /\ result.kind.amount - result.betting.current_bet = result.betting.min_raise
    /\ result.player.stack = result.kind.amount - result.player.current_bet

\* ----------------------------------------------- compute_side_pots called directly
\* The contributions maps handed to compute_side_pots: small amounts on every
\* seat, and the amounts 100, 200, 400 of the repository's multiway scenario.
ContributionChoices == (0 .. MaxContribution) \cup {100, 200, 400}

SidePotsCall(op, contributions, iter_order, pots) ==
    [op |-> op, ok |-> TRUE, ret |-> "Ok", via |-> "side_pots", remaining |-> {},
     seat |-> NoSeat, contributions |-> contributions, iter_order |-> iter_order,
     pots |-> pots]

InitSidePots ==
    /\ table = Table_new(CHOOSE st \in StakesChoices : st.ante_type = "None")
    /\ engine = NoEngine
    /\ lobby = TournamentLobby_new
    /\ \E contributions \in [Seats -> ContributionChoices], iter_order \in IterOrders :
          result = SidePotsCall("arguments", contributions, iter_order, <<>>)

ComputeSidePots ==
    /\ result.op = "arguments"
    /\ result' = SidePotsCall("compute_side_pots", result.contributions, result.iter_order,
                              compute_side_pots(result.contributions, result.iter_order))
    /\ UNCHANGED <<table, engine, lobby>>

NextSidePots == ComputeSidePots

SpecSidePots == InitSidePots /\ [][NextSidePots]_vars

\* C14: for every contributions map compute_side_pots returns, in ascending level
\* order, exactly one pot per distinct positive contribution level L_k, whose
\* amount is (L_k - L_(k-1)) times the number of seats whose contribution is at
\* least L_k, with L_0 = 0.
C14_OnePotPerLevel ==
    result.op = "compute_side_pots" =>
        LET c == result.contributions
            levels == {c[s] : s \in Seats} \ {0}
        IN  /\ Len(result.pots) = Cardinality(levels)
            /\ \A L \in levels :
                  LET k == Cardinality({l \in levels : l <= L})
                      below == {0} \cup {l \in levels : l < L}
                      prev == CHOOSE l \in below : \A m \in below : m <= l
                  IN  result.pots[k].amount
                        = (L - prev) * Cardinality({s \in Seats : c[s] >= L})

\* C14 witness: a map with two distinct positive levels, the lower one held by
\* at least two seats, was turned into side pots.
C14_Witness ==
    /\ result.op = "compute_side_pots"
    /\ Len(result.pots) = 2
    /\ \E s1, s2 \in Seats :
          /\ s1 # s2
          /\ result.contributions[s1] > 0
          /\ result.contributions[s1] = result.contributions[s2]
          /\ \E s3 \in Seats : result.contributions[s3] > result.contributions[s1]

\* The contributions map {seat0: 100, seat1: 200, seat2: 400}.
C15_Contributions ==
    [s \in Seats |-> IF s = 0 THEN 100 ELSE IF s = 1 THEN 200 ELSE IF s = 2 THEN 400 ELSE 0]

\* C15 as amended: for contributions {seat0: 100, seat1: 200, seat2: 400} the
\* side pots are pot0 = 300 with eligible seats {0,1,2}, pot1 = 200 with eligible
\* seats {1,2}, and pot2 = 200 with eligible seats {2}.
C15_MultiwaySidePots ==
    (result.op = "compute_side_pots" /\ result.contributions = C15_Contributions) =>
        /\ Len(result.pots) = 3
        /\ result.pots[1].amount = 300 /\ SeqToSet(result.pots[1].eligible_seats) = {0, 1, 2}
        /\ result.pots[2].amount = 200 /\ SeqToSet(result.pots[2].eligible_seats) = {1, 2}
        /\ result.pots[3].amount = 200 /\ SeqToSet(result.pots[3].eligible_seats) = {2}

\* C15 as stated: for contributions {seat0: 100, seat1: 200, seat2: 400} the side
\* pots are pot0 = 300 with eligible seats {0,1,2}, pot1 = 200 with eligible seats
\* {1,2}, and pot2 = 100 with eligible seats {2}.
C15_MultiwaySidePotsAsStated ==
    (result.op = "compute_side_pots" /\ result.contributions = C15_Contributions) =>
        /\ Len(result.pots) = 3
        /\ result.pots[1].amount = 300 /\ SeqToSet(result.pots[1].eligible_seats) = {0, 1, 2}
        /\ result.pots[2].amount = 200 /\ SeqToSet(result.pots[2].eligible_seats) = {1, 2}
        /\ result.pots[3].amount = 100 /\ SeqToSet(result.pots[3].eligible_seats) = {2}

\* C15 witness: the side pots of {seat0: 100, seat1: 200, seat2: 400} were computed.
C15_Witness ==
    /\ result.op = "compute_side_pots"
    /\ result.contributions = C15_Contributions
    /\ Len(result.pots) = 3

\* C16: when k seats tie for a side pot at showdown, each of them receives
\* floor(amount / k) chips and the remaining amount mod k chips are handed out one
\* chip each to the tied seats in ascending seat-index order.  The PotAwarded
\* events of one side pot are a maximal run of consecutive PotAwarded events (the
\* ShowdownReveal events of the next pot separate the runs): within a run no
\* seat receives less than a seat of higher index, and every prize is the floor
\* of the even share or one chip more.
C16_RemainderInAscendingSeatOrder ==
    (engine.present /\ result.op = "apply_action" /\ result.via = "showdown") =>
        LET h == engine.history
            Awarded(i, j) == \A m \in i .. j : h[m].kind = "PotAwarded"
            IsRun(i, j) == /\ Awarded(i, j)
                           /\ (i = 1 \/ h[i - 1].kind # "PotAwarded")
                           /\ (j = Len(h) \/ h[j + 1].kind # "PotAwarded")
            Amount(i, j) == SumAmounts(SubSeq(h, i, j))
        IN  \A i \in 1 .. Len(h) : \A j \in i .. Len(h) :
                IsRun(i, j) =>
                    \A a \in i .. j : \A b \in i .. j :
                        /\ h[a].amount >= Amount(i, j) \div (j - i + 1)
                        /\ h[a].amount <= (Amount(i, j) \div (j - i + 1)) + 1
                        /\ h[a].seat < h[b].seat => h[a].amount >= h[b].amount

\* The number of board cards the claim gives for a street.
C17_BoardSize(street) ==
    CASE street = "Preflop" -> 0
      [] street = "Flop" -> 3
      [] street = "Turn" -> 4
      [] OTHER -> 5

\* Some accepted action of the seat to act empties to_act and takes the street
\* from the current one to next_street.
C17_RoundCompletes(next_street) ==
    \E action \in PlayerActions(engine.current_actor) :
        /\ ApplyActionError(table, engine, action) = "Ok"
        /\ is_round_complete(
              mark_acted(ApplyKind(table, engine, action.seat, action.kind).e.betting,
                         action.seat))
        /\ apply_action(table, engine, action, NoShowdown).t.street = next_street

\* C17 as amended: during a hand the street moves forward one step at a time in
\* the order Preflop, Flop, Turn, River, Showdown, each step being taken exactly
\* when an accepted action empties to_act, except that an action which leaves a
\* single seat in the hand ends it without showdown and sets the street to
\* Showdown from whatever street it was on; while the hand goes on the board
\* holds 0, 3, 4 and 5 cards on Preflop, Flop, Turn and River.
C17_StreetStepsOrAutoWin ==
    [][(table.hand_in_progress /\ result'.op = "apply_action" /\ result'.ok) =>
        IF Cardinality({s \in Seats : InHand(table'.seats[s])}) = 1
        THEN table'.street = "Showdown" /\ ~table'.hand_in_progress
        ELSE /\ table'.street # table.street =>
                   table'.street = NextStreet(table.street) /\ C17_RoundCompletes(table'.street)
             /\ table'.street = table.street => engine'.betting.to_act # <<>>
             /\ table'.hand_in_progress => Len(table'.board) = C17_BoardSize(table'.street)
      ]_vars

\* C17 as stated: during a hand the street only moves forward one step at a time
\* in the order Preflop, Flop, Turn, River, Showdown, each step being taken
\* exactly when a betting round completes (to_act becomes empty), and the board
\* holds 0, 3, 4 and 5 cards on Preflop, Flop, Turn and River.
C17_StreetStepsOnly ==
    [][(table.hand_in_progress /\ result'.op = "apply_action" /\ result'.ok) =>
        /\ table'.street # table.street =>
              table'.street = NextStreet(table.street) /\ C17_RoundCompletes(table'.street)
        /\ table'.street = table.street => engine'.betting.to_act # <<>>
        /\ table'.hand_in_progress => Len(table'.board) = C17_BoardSize(table'.street)
      ]_vars

\* C17 witness: a completed Turn round has taken the hand to the River with five
\* board cards.
C17_Witness ==
    /\ engine.present /\ table.hand_in_progress
    /\ result.op = "apply_action" /\ result.ok /\ result.via = "advance"
    /\ table.street = "River" /\ Len(table.board) = 5

\* The registered players of a tournament that are busted.
Busted(t) == {p \in Registered(t) : t.registrations[p].is_busted}

\* C18: in a started tournament with N entries, the k-th successful bust is
\* assigned finishing_place N - k + 1, so all assigned places are distinct and
\* lie in [1, N]; after N - 1 busts the status is Finished and the only remaining
\* player is winner_id with finishing_place 1.
C18_BustPlacesCountDown ==
    [][(result'.op = "mark_player_busted" /\ result'.ok) =>
        \A id \in TournamentIds :
            (lobby_has(lobby, id) /\ lobby'.tournaments[id] # lobby.tournaments[id]) =>
                LET before == lobby.tournaments[id]
                    after == lobby'.tournaments[id]
                    N == Cardinality(Registered(after))
                    k == Cardinality(Busted(after))
                IN  /\ after.total_entries = N
                    /\ \E p \in Busted(after) \ Busted(before) :
                          /\ Busted(after) = Busted(before) \cup {p}
                          /\ after.registrations[p].finishing_place = N - k + 1
                    /\ {after.registrations[p].finishing_place : p \in Busted(after)}
                          = {N - j + 1 : j \in 1 .. k}
                    /\ \A p \in Busted(after) :
                          after.registrations[p].finishing_place \in 1 .. N
                    /\ k = N - 1 =>
                          /\ after.status = "Finished"
                          /\ \E w \in Registered(after) :
                                /\ active_players(after) = {w}
                                /\ after.winner_id = w
                                /\ after.registrations[w].finishing_place = 1
                    /\ k < N - 1 => after.status = "Running"
      ]_vars

\* C18 witness: a tournament of three entries has been bust down to its winner.
C18_Witness ==
    /\ result.op = "mark_player_busted" /\ result.ok
    /\ \E id \in TournamentIds :
          /\ lobby_has(lobby, id)
          /\ lobby.tournaments[id].status = "Finished"
          /\ lobby.tournaments[id].total_entries = 3
          /\ Cardinality(Busted(lobby.tournaments[id])) = 2
          /\ lobby.tournaments[id].winner_id \in active_players(lobby.tournaments[id])

\* C19: in every reachable tournament state with status Running, total_entries
\* is at least the number of active (non-busted) players plus finished_count.
C19_EntriesCoverActiveAndFinished ==
    \A id \in TournamentIds :
        (lobby_has(lobby, id) /\ lobby.tournaments[id].status = "Running") =>
            lobby.tournaments[id].total_entries
                >= active_player_count(lobby.tournaments[id])
                   + lobby.tournaments[id].finished_count

\* C19 witness: a Running tournament in which a player has been busted.
C19_Witness ==
    \E id \in TournamentIds :
        /\ lobby_has(lobby, id)
        /\ lobby.tournaments[id].status = "Running"
        /\ lobby.tournaments[id].finished_count > 0
        /\ active_player_count(lobby.tournaments[id]) > 1

\* C20: mark_player_busted succeeds only while the tournament status is Running;
\* in Registering, OnBreak or Finished it returns InvalidStatus and changes
\* nothing, for every tournament of the lobby and every player id.
C20_BustOnlyWhileRunning ==
    \A id \in TournamentIds : \A player_id \in TourPlayers :
        lobby_has(lobby, id) =>
            /\ mark_player_busted(lobby.tournaments[id], player_id).ok
                  => lobby.tournaments[id].status = "Running"
            /\ lobby.tournaments[id].status \in {"Registering", "OnBreak", "Finished"} =>
                  /\ ~mark_player_busted(lobby.tournaments[id], player_id).ok
                  /\ mark_player_busted(lobby.tournaments[id], player_id).ret = "InvalidStatus"
                  /\ mark_player_busted(lobby.tournaments[id], player_id).t
                        = lobby.tournaments[id]

\* C20 witness: a bust was refused with InvalidStatus while the tournament was
\* on a break.
C20_Witness ==
    /\ result.op = "mark_player_busted" /\ ~result.ok /\ result.ret = "InvalidStatus"
    /\ \E id \in TournamentIds :
          lobby_has(lobby, id) /\ lobby.tournaments[id].status = "OnBreak"

\* ------------------------------------------------------ a tournament on the clock
\* A tournament of two one-minute blind levels with a one-minute break after
\* every two minutes of play and late registration open during level 1.
ClockConfig ==
    [BaseConfig EXCEPT
        !.blind_structure.levels =
            <<[level |-> 1, small_blind |-> 1, big_blind |-> 2, ante |-> 0,
               ante_type |-> "None", duration_minutes |-> 1],
              [level |-> 2, small_blind |-> 2, big_blind |-> 4, ante |-> 0,
               ante_type |-> "None", duration_minutes |-> 1]>>,
        !.late_reg_level = 1,
        !.schedule.break_every_minutes = 2,
        !.schedule.break_duration_minutes = 1]

\* The clock readings: the first and the last second of every minute.
ClockTimes == {60 * m + d : m \in 0 .. MaxMinutes, d \in {0, 59}}

\* The lobby once the tournament is created and two players have registered.
ClockLobby ==
    register_player(
        register_player(create_tournament(TournamentLobby_new, 1, ClockConfig).l, 1, 1).l,
        1, 2).l

TickResult(ev, now_ts, status) ==
    [op |-> "apply_time_tick", ok |-> TRUE, ret |-> ev, via |-> "lobby", remaining |-> {},
     seat |-> NoSeat, now_ts |-> now_ts, status |-> status]

InitClock ==
    /\ table = Table_new(CHOOSE st \in StakesChoices : st.ante_type = "None")
    /\ engine = NoEngine
    /\ lobby = ClockLobby
    /\ result = TourResult("register_player", TRUE, "Ok")

\* apply_time_tick with the clock reading and the status it found kept in the result.
TimeTick ==
    /\ \E tournament_id \in TournamentIds, now_ts \in ClockTimes :
          /\ lobby_has(lobby, tournament_id)
          /\ lobby' = [lobby EXCEPT !.tournaments[tournament_id] =
                          apply_time_tick(lobby.tournaments[tournament_id], now_ts).t]
          /\ result' = TickResult(apply_time_tick(lobby.tournaments[tournament_id], now_ts).ev,
                                  now_ts, lobby.tournaments[tournament_id].status)
    /\ UNCHANGED <<table, engine>>

NextClock == RegisterPlayer \/ StartTournament \/ TimeTick

SpecClock == InitClock /\ [][NextClock]_vars

\* The whole minutes from the start of the tournament to now_ts.
C21_ElapsedMinutes(t, now_ts) ==
    IF now_ts >= t.started_at_ts THEN (now_ts - t.started_at_ts) \div 60 ELSE 0

\* cycle_pos = elapsed_minutes mod (break_every + break_duration).
C21_CyclePos(t, now_ts) ==
    C21_ElapsedMinutes(t, now_ts)
        % (t.config.schedule.break_every_minutes + t.config.schedule.break_duration_minutes)

\* The level due after the elapsed minutes: the first level whose end lies
\* beyond them, the last level when there is none.
C22_TargetLevel(t, now_ts) ==
    LET levels == t.config.blind_structure.levels
        End(i) == SumOver([j \in 1 .. Len(levels) |-> levels[j].duration_minutes], 1 .. i)
        open == {i \in 1 .. Len(levels) : C21_ElapsedMinutes(t, now_ts) < End(i)}
    IN  IF open = {} THEN levels[Len(levels)].level
        ELSE levels[CHOOSE i \in open : \A j \in open : i <= j].level

\* C21: on a time tick with cycle_pos = elapsed_minutes mod (break_every +
\* break_duration): a Running tournament with cycle_pos >= break_every becomes
\* OnBreak and the tick emits BreakStarted; an OnBreak tournament with
\* cycle_pos < break_every becomes Running and the tick emits LevelAdvanced if a
\* new level is due, otherwise BreakEnded; an OnBreak tournament with
\* cycle_pos >= break_every stays OnBreak and the tick emits nothing.
C21_BreakFollowsCycle ==
    [][result'.op = "apply_time_tick" =>
        \A id \in TournamentIds : lobby_has(lobby, id) =>
            LET t == lobby.tournaments[id]
                after == lobby'.tournaments[id]
                now_ts == result'.now_ts
                in_break == C21_CyclePos(t, now_ts) >= t.config.schedule.break_every_minutes
            IN  /\ (t.status = "Running" /\ in_break) =>
                      /\ after.status = "OnBreak"
                      /\ after.break_started_at_ts = now_ts
                      /\ result'.ret = "BreakStarted"
                /\ (t.status = "OnBreak" /\ ~in_break) =>
                      /\ after.status = "Running"
                      /\ result'.ret = IF C22_TargetLevel(t, now_ts) > t.current_level
                                       THEN "LevelAdvanced" ELSE "BreakEnded"
                /\ (t.status = "OnBreak" /\ in_break) =>
                      /\ after = t
                      /\ result'.ret = "None"
      ]_vars

\* C21 witness: a tick has ended a break with no new level due.
C21_Witness ==
    /\ result.op = "apply_time_tick" /\ result.status = "OnBreak" /\ result.ret = "BreakEnded"
    /\ \E id \in TournamentIds :
          lobby_has(lobby, id) /\ lobby.tournaments[id].status = "Running"

\* C22: on a time tick in Running with no break edge, LevelAdvanced is emitted
\* and current_level is set to level_for_elapsed_minutes(elapsed minutes since
\* start) exactly when that target level exceeds current_level; otherwise the
\* tick returns None and current_level is unchanged.
C22_LevelFollowsElapsedMinutes ==
    [][result'.op = "apply_time_tick" =>
        \A id \in TournamentIds : lobby_has(lobby, id) =>
            LET t == lobby.tournaments[id]
                after == lobby'.tournaments[id]
                now_ts == result'.now_ts
            IN  (/\ t.status = "Running"
                 /\ C21_CyclePos(t, now_ts) < t.config.schedule.break_every_minutes) =>
                    IF C22_TargetLevel(t, now_ts) > t.current_level
                    THEN /\ result'.ret = "LevelAdvanced"
                         /\ after.current_level = C22_TargetLevel(t, now_ts)
                         /\ after.status = "Running"
                    ELSE /\ result'.ret = "None"
                         /\ after.current_level = t.current_level
                         /\ after = t
      ]_vars

\* C22 witness: a tick on a Running tournament has advanced it to level 2.
C22_Witness ==
    /\ result.op = "apply_time_tick" /\ result.status = "Running"
    /\ result.ret = "LevelAdvanced"
    /\ \E id \in TournamentIds :
          /\ lobby_has(lobby, id)
          /\ lobby.tournaments[id].current_level = 2
          /\ lobby.tournaments[id].level_started_at_ts = result.now_ts

\* C23: re-applying apply_time_tick with a non-advancing now_ts is a no-op:
\* after apply_time_tick(t) has been applied, apply_time_tick(t') with any
\* t' <= t returns None and leaves status, current_level and all timestamps of
\* the tournament unchanged.
C23_NonAdvancingTickIsNoOp ==
    [][(result.op = "apply_time_tick" /\ result'.op = "apply_time_tick"
        /\ result'.now_ts <= result.now_ts) =>
            /\ result'.ret = "None"
            /\ lobby' = lobby
      ]_vars

\* C24: start(now_ts) succeeds exactly when the status is Registering, the
\* number of active registrations is at least min_players_to_start and the
\* schedule allows it (scheduled_start_ts = 0, or now_ts >= scheduled_start_ts, or
\* allow_start_earlier); on success the status is Running with total_entries =
\* active count, finished_count = 0 and current_level = 1; otherwise it returns
\* InvalidStatusForStart and changes nothing.
C24_StartExactlyWhenAllowed ==
    \A id \in TournamentIds : \A now_ts \in 0 .. MaxTime :
        lobby_has(lobby, id) =>
            LET t == lobby.tournaments[id]
                active == {p \in TourPlayers :
                              t.registrations[p].present /\ ~t.registrations[p].is_busted}
                allowed == /\ t.status = "Registering"
                           /\ Cardinality(active) >= t.config.min_players_to_start
                           /\ \/ t.config.schedule.scheduled_start_ts = 0
                              \/ now_ts >= t.config.schedule.scheduled_start_ts
                              \/ t.config.schedule.allow_start_earlier
            IN  /\ Tournament_start(t, now_ts).ok <=> allowed
                /\ allowed =>
                      /\ Tournament_start(t, now_ts).t.status = "Running"
                      /\ Tournament_start(t, now_ts).t.total_entries = Cardinality(active)
                      /\ Tournament_start(t, now_ts).t.finished_count = 0
                      /\ Tournament_start(t, now_ts).t.current_level = 1
                /\ ~allowed =>
                      /\ Tournament_start(t, now_ts).ret = "InvalidStatusForStart"
                      /\ Tournament_start(t, now_ts).t = t

\* C24 witness: a tournament that may not start early has been started at its
\* scheduled time.
C24_Witness ==
    /\ result.op = "start" /\ result.ok
    /\ \E id \in TournamentIds :
          /\ lobby_has(lobby, id)
          /\ lobby.tournaments[id].status = "Running"
          /\ lobby.tournaments[id].config.schedule.scheduled_start_ts > 0
          /\ ~lobby.tournaments[id].config.schedule.allow_start_earlier
          /\ lobby.tournaments[id].started_at_ts
                >= lobby.tournaments[id].config.schedule.scheduled_start_ts
          /\ lobby.tournaments[id].total_entries = active_player_count(lobby.tournaments[id])

\* C25: late registration is permitted up to late_reg_level: when
\* late_reg_level > 0 and the started tournament's current_level is at most
\* late_reg_level, register_player for a player who is not yet registered
\* succeeds while capacity remains.
C25_LateRegistrationPermitted ==
    \A id \in TournamentIds : \A player_id \in TourPlayers :
        (/\ lobby_has(lobby, id)
         /\ lobby.tournaments[id].status \in {"Running", "OnBreak"}
         /\ lobby.tournaments[id].config.late_reg_level > 0
         /\ lobby.tournaments[id].current_level <= lobby.tournaments[id].config.late_reg_level
         /\ ~lobby.tournaments[id].registrations[player_id].present
         /\ Cardinality(Registered(lobby.tournaments[id]))
                < lobby.tournaments[id].config.max_players)
            => register_player(lobby, id, player_id).ok

\* ---------------------------------------------------------------------------
\* Seating and table balancing of one tournament.

SeatingPlayers == 1 .. MaxEntrants

Max(a, b) == IF a > b THEN a ELSE b

\* Vec::sort_unstable on a set of distinct ids: the ascending sequence.
RECURSIVE SortedSeq(_)
SortedSeq(S) ==
    IF S = {} THEN <<>>
    ELSE <<CHOOSE x \in S : \A y \in S : x <= y>>
         \o SortedSeq(S \ {CHOOSE x \in S : \A y \in S : x <= y})

Reverse(sq) == [i \in 1 .. Len(sq) |-> sq[Len(sq) + 1 - i]]

\* The orders in which a HashMap may yield a set of keys: ascending and
\* descending stand for the orders the hasher can produce.
KeyOrders(S) == {SortedSeq(S), Reverse(SortedSeq(S))}

\* The for loop of seat_players_evenly over one chunk: table_id and seat_index of
\* every player of the chunk.
RECURSIVE SeatChunk(_, _, _, _)
SeatChunk(t, chunk, seat, table_id) ==
    IF seat >= Len(chunk) THEN t
    ELSE SeatChunk([t EXCEPT !.registrations[chunk[seat + 1]].table_id = table_id,
                             !.registrations[chunk[seat + 1]].seat_index = seat],
                   chunk, seat + 1, table_id)

\* The while loop of seat_players_evenly: consecutive chunks of ts players, one
\* table per chunk.
RECURSIVE SeatChunks(_, _, _, _, _)
SeatChunks(t, active, idx, ts, table_id) ==
    IF idx >= Len(active) THEN [t |-> t, result |-> <<>>]
    ELSE [t |-> SeatChunks(SeatChunk(t, SubSeq(active, idx + 1, Min(idx + ts, Len(active))),
                                     0, table_id),
                           active, Min(idx + ts, Len(active)), ts, table_id + 1).t,
          result |-> <<[table_id |-> table_id,
                        players |-> SubSeq(active, idx + 1, Min(idx + ts, Len(active)))]>>
                     \o SeatChunks(t, active, Min(idx + ts, Len(active)), ts,
                                   table_id + 1).result]

\* Tournament::seat_players_evenly
seat_players_evenly(t, table_size, next_table_id) ==
    SeatChunks(t, SortedSeq(active_players(t)), 0, Max(table_size, 2), next_table_id)

\* The players pushed to one table's Vec, in the order the registrations map
\* yields them.
RECURSIVE PlayersAt(_, _, _)
PlayersAt(t, order, tid) ==
    IF order = <<>> THEN <<>>
    ELSE IF /\ t.registrations[Head(order)].present
            /\ ~t.registrations[Head(order)].is_busted
            /\ t.registrations[Head(order)].table_id = tid
         THEN <<Head(order)>> \o PlayersAt(t, Tail(order), tid)
         ELSE PlayersAt(t, Tail(order), tid)

\* The table ids that hold at least one active player.
SeatedTables(t) ==
    {t.registrations[p].table_id : p \in active_players(t)} \ {NoTable}

\* table_map of compute_rebalance_moves.
TableMap(t, player_order) ==
    [tid \in SeatedTables(t) |-> PlayersAt(t, player_order, tid)]

\* The scan for min_tid: the first table of the iteration with the smallest count.
RECURSIVE MinTable(_, _, _, _)
MinTable(table_map, keys, best, best_count) ==
    IF keys = <<>> THEN best
    ELSE IF Len(table_map[Head(keys)]) < best_count
         THEN MinTable(table_map, Tail(keys), Head(keys), Len(table_map[Head(keys)]))
         ELSE MinTable(table_map, Tail(keys), best, best_count)

\* The scan for max_tid: the first table of the iteration with the largest count.
RECURSIVE MaxTable(_, _, _, _)
MaxTable(table_map, keys, best, best_count) ==
    IF keys = <<>> THEN best
    ELSE IF Len(table_map[Head(keys)]) > best_count
         THEN MaxTable(table_map, Tail(keys), Head(keys), Len(table_map[Head(keys)]))
         ELSE MaxTable(table_map, Tail(keys), best, best_count)

\* One move: the last player of the fullest table is pushed to the emptiest.
MovePlayer(table_map, min_tid, max_tid) ==
    [[table_map EXCEPT ![max_tid] = SubSeq(@, 1, Len(@) - 1)]
        EXCEPT ![min_tid] = Append(@, table_map[max_tid][Len(table_map[max_tid])])]

\* The steps the loop of compute_rebalance_moves is followed for.
RebalanceFuel == MaxEntrants * MaxEntrants

\* The loop of compute_rebalance_moves, entered with the min_tid and max_tid of
\* the current table_map; terminated is FALSE when the loop is still running
\* after RebalanceFuel moves.
RECURSIVE RebalanceLoop(_, _, _, _, _, _)
RebalanceLoop(table_map, keys, max_seat_diff, min_tid, max_tid, fuel) ==
    IF min_tid = NoTable \/ max_tid = NoTable THEN [moves |-> <<>>, terminated |-> TRUE]
    ELSE IF Len(table_map[max_tid]) - Len(table_map[min_tid]) <= max_seat_diff
    THEN [moves |-> <<>>, terminated |-> TRUE]
    ELSE IF table_map[max_tid] = <<>> THEN [moves |-> <<>>, terminated |-> TRUE]
    ELSE IF fuel = 0 THEN [moves |-> <<>>, terminated |-> FALSE]
    ELSE [moves |-> <<[player_id |-> table_map[max_tid][Len(table_map[max_tid])],
                       from_table |-> max_tid, to_table |-> min_tid]>>
                    \o RebalanceLoop(MovePlayer(table_map, min_tid, max_tid), keys, max_seat_diff,
                           MinTable(MovePlayer(table_map, min_tid, max_tid), keys, NoTable,
                                    MaxEntrants + 1),
                           MaxTable(MovePlayer(table_map, min_tid, max_tid), keys, NoTable, 0),
                           fuel - 1).moves,
          terminated |-> RebalanceLoop(MovePlayer(table_map, min_tid, max_tid), keys,
                           max_seat_diff,
                           MinTable(MovePlayer(table_map, min_tid, max_tid), keys, NoTable,
                                    MaxEntrants + 1),
                           MaxTable(MovePlayer(table_map, min_tid, max_tid), keys, NoTable, 0),
                           fuel - 1).terminated]

\* compute_rebalance_moves that tolerates one seat more than max_seat_diff.
compute_rebalance_moves_loose(t, player_order, table_order) ==
    IF ~t.config.balancing.enabled THEN [moves |-> <<>>, terminated |-> TRUE]
    ELSE IF Cardinality(SeatedTables(t)) <= 1 THEN [moves |-> <<>>, terminated |-> TRUE]
    ELSE RebalanceLoop(TableMap(t, player_order), table_order,
                       t.config.balancing.max_seat_diff + 1,
                       MinTable(TableMap(t, player_order), table_order, NoTable, MaxEntrants + 1),
                       MaxTable(TableMap(t, player_order), table_order, NoTable, 0),
                       RebalanceFuel)

\* Tournament::compute_rebalance_moves; player_order and table_order are the
\* orders in which the registrations map and table_map yield their entries.
compute_rebalance_moves(t, player_order, table_order) ==
    IF ~t.config.balancing.enabled THEN [moves |-> <<>>, terminated |-> TRUE]
    ELSE IF Cardinality(SeatedTables(t)) <= 1 THEN [moves |-> <<>>, terminated |-> TRUE]
    ELSE RebalanceLoop(TableMap(t, player_order), table_order,
                       t.config.balancing.max_seat_diff,
                       MinTable(TableMap(t, player_order), table_order, NoTable, MaxEntrants + 1),
                       MaxTable(TableMap(t, player_order), table_order, NoTable, 0),
                       RebalanceFuel)

\* Tournament::apply_rebalance_moves
RECURSIVE apply_rebalance_moves(_, _)
apply_rebalance_moves(t, moves) ==
    IF moves = <<>> THEN t
    ELSE apply_rebalance_moves(
             IF t.registrations[Head(moves).player_id].present
             THEN [t EXCEPT !.registrations[Head(moves).player_id].table_id = Head(moves).to_table,
                            !.registrations[Head(moves).player_id].seat_index = NoSeat]
             ELSE t,
             Tail(moves))

\* The configuration of the balancing tests: balancing by one seat, enabled or not.
SeatingConfigs ==
    {[BaseConfig EXCEPT !.max_players = MaxEntrants, !.table_size = 3,
                        !.balancing.enabled = en] : en \in BOOLEAN}

\* register_player for the players 1 .. n in turn.
RECURSIVE RegisterEntrants(_, _)
RegisterEntrants(t, n) ==
    IF n = 0 THEN t ELSE Tournament_register_player(RegisterEntrants(t, n - 1), n).t

\* A tournament of n registered players that has been started.
SeatingTournament(config, n) ==
    Tournament_start(
        RegisterEntrants([Tournament_new(1, 1, config).t EXCEPT
                             !.registrations = [p \in SeatingPlayers |-> NoRegistration]], n),
        0).t

SeatingResult(op, ok, ret, seating, moves, terminated) ==
    [op |-> op, ok |-> ok, ret |-> ret, via |-> "tournament", remaining |-> {}, seat |-> NoSeat,
     seating |-> seating, moves |-> moves, terminated |-> terminated]

InitSeating ==
    /\ table = Table_new(CHOOSE st \in StakesChoices : st.ante_type = "None")
    /\ engine = NoEngine
    /\ \E config \in SeatingConfigs, n \in 2 .. MaxEntrants :
          lobby = [TournamentLobby_new EXCEPT !.tournaments[1] = SeatingTournament(config, n),
                                              !.next_tournament_id = 2]
    /\ result = SeatingResult("start", TRUE, "Ok", <<>>, <<>>, TRUE)

\* Tournament::seat_players_evenly
SeatPlayersEvenly ==
    /\ \E table_size \in 1 .. (MaxEntrants - 1), next_table_id \in {1} :
          /\ lobby' = [lobby EXCEPT !.tournaments[1] =
                          seat_players_evenly(lobby.tournaments[1], table_size, next_table_id).t]
          /\ result' = SeatingResult("seat_players_evenly", TRUE, "Ok",
                          seat_players_evenly(lobby.tournaments[1], table_size,
                                              next_table_id).result,
                          <<>>, TRUE)
    /\ UNCHANGED <<table, engine>>

\* Tournament::mark_player_busted on the seated tournament
BustSeatedPlayer ==
    /\ \E player_id \in SeatingPlayers :
          /\ lobby' = [lobby EXCEPT !.tournaments[1] =
                          mark_player_busted(lobby.tournaments[1], player_id).t]
          /\ result' = SeatingResult("mark_player_busted",
                          mark_player_busted(lobby.tournaments[1], player_id).ok,
                          mark_player_busted(lobby.tournaments[1], player_id).ret,
                          <<>>, <<>>, TRUE)
    /\ UNCHANGED <<table, engine>>

\* Tournament::compute_rebalance_moves followed by Tournament::apply_rebalance_moves
Rebalance ==
    /\ \E player_order \in KeyOrders(SeatingPlayers),
          table_order \in KeyOrders(SeatedTables(lobby.tournaments[1])) :
          /\ lobby' = [lobby EXCEPT !.tournaments[1] =
                          apply_rebalance_moves(lobby.tournaments[1],
                              compute_rebalance_moves(lobby.tournaments[1], player_order,
                                                      table_order).moves)]
          /\ result' = SeatingResult("rebalance", TRUE, "Ok", <<>>,
                          compute_rebalance_moves(lobby.tournaments[1], player_order,
                                                  table_order).moves,
                          compute_rebalance_moves(lobby.tournaments[1], player_order,
                                                  table_order).terminated)
    /\ UNCHANGED <<table, engine>>

NextSeating == SeatPlayersEvenly \/ BustSeatedPlayer \/ Rebalance

SpecSeating == InitSeating /\ [][NextSeating]_vars

\* C26: seat_players_evenly seats the active players so that the player counts
\* of any two resulting tables differ by at most balancing.max_seat_diff (10
\* players with table_size 9 would be two tables of 5).
C26_SeatingIsBalanced ==
    result.op = "seat_players_evenly" =>
        \A i, j \in 1 .. Len(result.seating) :
            Len(result.seating[i].players) - Len(result.seating[j].players)
                <= lobby.tournaments[1].config.balancing.max_seat_diff

\* The number of active players seated at table tid.
C27_Count(t, tid) ==
    Cardinality({p \in active_players(t) : t.registrations[p].table_id = tid})

C28_RebalanceMovesIgnoreMapOrder ==
    \A player_order, other_player_order \in KeyOrders(SeatingPlayers) :
        \A table_order, other_table_order \in KeyOrders(SeatedTables(lobby.tournaments[1])) :
            compute_rebalance_moves(lobby.tournaments[1], player_order, table_order).moves
                = compute_rebalance_moves(lobby.tournaments[1], other_player_order,
                                          other_table_order).moves

\* ---------------------------------------------------------------------------
\* Time control: the shot clock and the time bank of one table.

TimePlayers == 1 .. 2

\* Option<PlayerId>::None of TurnClock::current_player
NoCurrentPlayer == 0
NoTurn == -1

\* TimeRules::new: a profile of 2 seconds per action with a bank of MaxSecs
\* seconds handed out in steps of 2 (TimeRules::standard in small), with or
\* without a bank and with or without a step.
RulesChoices ==
    {[base_action_secs |-> 2, bank_per_player_secs |-> b, bank_step_secs |-> st] :
        b \in {0, MaxSecs}, st \in {0, 2}}

\* TurnClock::new
TurnClock_new ==
    [current_player |-> NoCurrentPlayer, remaining_action_secs |-> 0, remaining_extra_secs |-> 0]

\* TurnClock::clear
TurnClock_clear(clock) ==
    [clock EXCEPT !.current_player = NoCurrentPlayer, !.remaining_action_secs = 0,
                  !.remaining_extra_secs = 0]

\* TimeBank::new: no player has an entry.
TimeBank_new == [p \in TimePlayers |-> [present |-> FALSE, remaining_secs |-> 0]]

\* TimeController::with_rules
TimeController_with_rules(rules) ==
    [present |-> TRUE, rules |-> rules, bank |-> TimeBank_new, clock |-> TurnClock_new]

\* TimeController::init_players: reset, then TimeBank::init_for_players.
init_players(tc, players) ==
    [tc EXCEPT !.bank =
        [p \in TimePlayers |->
            IF p \in players
            THEN [present |-> TRUE, remaining_secs |-> Max(tc.rules.bank_per_player_secs, 0)]
            ELSE [present |-> FALSE, remaining_secs |-> 0]]]

\* PlayerTimeBank::grant: the seconds handed out.
PlayerTimeBank_grant_unbounded(b, requested) ==
    IF requested <= 0 \/ b.remaining_secs <= 0 THEN 0 ELSE requested

PlayerTimeBank_grant(b, requested) ==
    IF requested <= 0 \/ b.remaining_secs <= 0 THEN 0 ELSE Min(requested, b.remaining_secs)

\* TimeBank::grant_for_turn: the seconds handed out and the bank after it.
grant_for_turn(bank, player_id, requested) ==
    IF requested <= 0 THEN [granted |-> 0, bank |-> bank]
    ELSE IF bank[player_id].present
    THEN [granted |-> PlayerTimeBank_grant(bank[player_id], requested),
          bank |-> [bank EXCEPT ![player_id].remaining_secs =
                       @ - PlayerTimeBank_grant(bank[player_id], requested)]]
    ELSE [granted |-> 0, bank |-> bank]

\* TurnClock::start_turn
start_turn(clock, player_id, rules, bank) ==
    IF Max(rules.bank_step_secs, 0) > 0
    THEN [clock |-> [current_player |-> player_id,
                     remaining_action_secs |-> Max(rules.base_action_secs, 0),
                     remaining_extra_secs |->
                         grant_for_turn(bank, player_id, Max(rules.bank_step_secs, 0)).granted],
          bank |-> grant_for_turn(bank, player_id, Max(rules.bank_step_secs, 0)).bank,
          granted_secs |-> grant_for_turn(bank, player_id, Max(rules.bank_step_secs, 0)).granted]
    ELSE [clock |-> [current_player |-> player_id,
                     remaining_action_secs |-> Max(rules.base_action_secs, 0),
                     remaining_extra_secs |-> 0],
          bank |-> bank, granted_secs |-> 0]

\* TimeController::start_player_turn
start_player_turn(tc, player_id) ==
    [tc |-> [tc EXCEPT !.clock = start_turn(tc.clock, player_id, tc.rules, tc.bank).clock,
                       !.bank = start_turn(tc.clock, player_id, tc.rules, tc.bank).bank],
     granted_secs |-> start_turn(tc.clock, player_id, tc.rules, tc.bank).granted_secs]

\* The end of elapse_for_current: the state returned for what is left to burn.
ElapseOutcome(clock, bank, remaining, used_extra) ==
    IF remaining > 0
    THEN [clock |-> [clock EXCEPT !.remaining_action_secs = 0, !.remaining_extra_secs = 0],
          bank |-> bank, state |-> "TimedOut", used_secs |-> 0]
    ELSE IF used_extra > 0
    THEN [clock |-> clock, bank |-> bank, state |-> "UsedExtraTime", used_secs |-> used_extra]
    ELSE [clock |-> clock, bank |-> bank, state |-> "Ongoing", used_secs |-> 0]

\* Step 3 of elapse_for_current: further packets are drawn from the bank while
\* time is left to burn.
RECURSIVE DrawPackets(_, _, _, _, _)
DrawPackets(clock, bank, step, remaining, used_extra) ==
    IF remaining <= 0 THEN ElapseOutcome(clock, bank, remaining, used_extra)
    ELSE IF step <= 0 THEN ElapseOutcome(clock, bank, remaining, used_extra)
    ELSE IF grant_for_turn(bank, clock.current_player, step).granted <= 0
    THEN ElapseOutcome(clock, grant_for_turn(bank, clock.current_player, step).bank,
                       remaining, used_extra)
    ELSE IF remaining < grant_for_turn(bank, clock.current_player, step).granted
    THEN ElapseOutcome(
             [clock EXCEPT !.remaining_extra_secs =
                 grant_for_turn(bank, clock.current_player, step).granted - remaining],
             grant_for_turn(bank, clock.current_player, step).bank,
             0, used_extra + remaining)
    ELSE DrawPackets(clock, grant_for_turn(bank, clock.current_player, step).bank, step,
                     remaining - grant_for_turn(bank, clock.current_player, step).granted,
                     used_extra + grant_for_turn(bank, clock.current_player, step).granted)

\* Step 2 of elapse_for_current: the extra time already granted is burnt.
BurnExtra(clock, bank, rules, remaining) ==
    IF remaining <= 0
    THEN [clock |-> clock, bank |-> bank, state |-> "Ongoing", used_secs |-> 0]
    ELSE IF clock.remaining_extra_secs > 0
    THEN IF remaining <= clock.remaining_extra_secs
         THEN [clock |-> [clock EXCEPT !.remaining_extra_secs = @ - remaining],
               bank |-> bank, state |-> "UsedExtraTime", used_secs |-> remaining]
         ELSE DrawPackets([clock EXCEPT !.remaining_extra_secs = 0], bank,
                          rules.bank_step_secs, remaining - clock.remaining_extra_secs,
                          clock.remaining_extra_secs)
    ELSE DrawPackets(clock, bank, rules.bank_step_secs, remaining, 0)

\* TurnClock::elapse_for_current
elapse_for_current(clock, delta_secs, rules, bank) ==
    IF clock.current_player = NoCurrentPlayer
    THEN [clock |-> clock, bank |-> bank, state |-> "NoActivePlayer", used_secs |-> 0]
    ELSE IF delta_secs <= 0
    THEN [clock |-> clock, bank |-> bank, state |-> "Ongoing", used_secs |-> 0]
    ELSE IF clock.remaining_action_secs > 0
    THEN BurnExtra([clock EXCEPT !.remaining_action_secs =
                       @ - Min(delta_secs, clock.remaining_action_secs)],
                   bank, rules, delta_secs - Min(delta_secs, clock.remaining_action_secs))
    ELSE BurnExtra(clock, bank, rules, delta_secs)

\* TimeController::on_time_passed
on_time_passed(tc, delta_secs) ==
    [tc |-> [tc EXCEPT !.clock = elapse_for_current(tc.clock, delta_secs, tc.rules, tc.bank).clock,
                       !.bank = elapse_for_current(tc.clock, delta_secs, tc.rules, tc.bank).bank],
     decision |-> IF elapse_for_current(tc.clock, delta_secs, tc.rules, tc.bank).state = "TimedOut"
                  THEN "TimeoutCheckOrFold" ELSE "None",
     state |-> elapse_for_current(tc.clock, delta_secs, tc.rules, tc.bank).state]

\* TimeController::clear_current_turn
clear_current_turn(tc) == [tc EXCEPT !.clock = TurnClock_clear(tc.clock)]

\* The record of the last call.  turn_budget and elapsed_secs follow the turn in
\* progress as a caller sees it: the base action time plus the bank the player
\* had when start_player_turn was called, and the seconds reported to
\* on_time_passed since then.  NoTurn marks that no such turn is being followed
\* (none was started, it was cleared, or init_players refilled the banks).
TimeResult(op, ret, player_id, secs, turn_budget, elapsed_secs) ==
    [op |-> op, ok |-> TRUE, ret |-> ret, via |-> "time_ctrl", remaining |-> {}, seat |-> NoSeat,
     player_id |-> player_id, secs |-> secs,
     turn_budget |-> turn_budget, elapsed_secs |-> elapsed_secs]

\* The time bank of a player as remaining_bank_for reports it.
remaining_bank_for(tc, player_id) ==
    IF tc.bank[player_id].present THEN tc.bank[player_id].remaining_secs ELSE 0

InitTime ==
    /\ table = Table_new(CHOOSE st \in StakesChoices : st.ante_type = "None")
    /\ lobby = TournamentLobby_new
    /\ \E rules \in RulesChoices : engine = TimeController_with_rules(rules)
    /\ result = TimeResult("with_rules", "Ok", NoCurrentPlayer, 0, NoTurn, 0)

\* TimeController::init_players
InitPlayers ==
    /\ \E players \in SUBSET TimePlayers :
          /\ engine' = init_players(engine, players)
          /\ result' = TimeResult("init_players", "Ok", NoCurrentPlayer, 0, NoTurn, 0)
    /\ UNCHANGED <<table, lobby>>

\* TimeController::start_player_turn
StartPlayerTurn ==
    /\ \E player_id \in TimePlayers :
          /\ engine' = start_player_turn(engine, player_id).tc
          /\ result' = TimeResult("start_player_turn", "Ok", player_id,
                                  start_player_turn(engine, player_id).granted_secs,
                                  Max(engine.rules.base_action_secs, 0)
                                      + remaining_bank_for(engine, player_id),
                                  0)
    /\ UNCHANGED <<table, lobby>>

\* TimeController::on_time_passed
OnTimePassed ==
    /\ \E delta_secs \in 0 .. MaxSecs :
          /\ result.elapsed_secs + delta_secs <= MaxElapsed
          /\ engine' = on_time_passed(engine, delta_secs).tc
          /\ result' = TimeResult("on_time_passed", on_time_passed(engine, delta_secs).decision,
                                  engine.clock.current_player, delta_secs,
                                  result.turn_budget,
                                  IF result.turn_budget = NoTurn THEN 0
                                  ELSE result.elapsed_secs + delta_secs)
    /\ UNCHANGED <<table, lobby>>

\* TimeController::clear_current_turn
ClearCurrentTurn ==
    /\ engine' = clear_current_turn(engine)
    /\ result' = TimeResult("clear_current_turn", "Ok", NoCurrentPlayer, 0, NoTurn, 0)
    /\ UNCHANGED <<table, lobby>>

NextTime == InitPlayers \/ StartPlayerTurn \/ OnTimePassed \/ ClearCurrentTurn

SpecTime == InitTime /\ [][NextTime]_vars

\* C29: after a turn is started for player p, the turn clock has
\* current_player = p, remaining_action_secs = base_action_secs and
\* remaining_extra_secs = 0.
C29_StartTurnResetsClock ==
    result.op = "start_player_turn" =>
        /\ engine.clock.current_player = result.player_id
        /\ engine.clock.remaining_action_secs = engine.rules.base_action_secs
        /\ engine.clock.remaining_extra_secs = 0

\* C30: during start_hand, a player whose ante or blind payment consumes exactly
\* their remaining stack (the stack becomes 0) is put in AllIn status and is
\* therefore not queued in to_act.
C30_PaidOutStackIsAllIn ==
    [][(result'.op = "start_hand" /\ result'.ok) =>
          \A seat \in 0 .. (MaxSeats - 1) :
              (/\ IsSome(table.seats[seat]) /\ IsSome(table'.seats[seat])
               /\ table.seats[seat].stack > 0
               /\ table'.seats[seat].stack = 0)
                  => /\ table'.seats[seat].status = "AllIn"
                     /\ ~Contains(engine'.betting.to_act, seat)]_vars

\* The seats of the HoleCardsDealt events of a history, in the order of dealing.
RECURSIVE C31_DealtSeats(_)
C31_DealtSeats(history) ==
    IF history = <<>> THEN <<>>
    ELSE IF Head(history).kind = "HoleCardsDealt"
         THEN <<Head(history).seat>> \o C31_DealtSeats(Tail(history))
         ELSE C31_DealtSeats(Tail(history))

\* C31: start_hand deals the hole cards one card at a time in two clockwise
\* passes, each pass beginning with the first occupied seat after the dealer
\* button, so the dealer receives the last card of each pass.
C31_DealStartsAfterDealer ==
    (result.op = "start_hand" /\ result.ok) =>
        LET dealt == C31_DealtSeats(engine.history)
            n == seated_count(table)
        IN /\ Len(dealt) = 2 * n
           /\ dealt[1] = next_occupied_seat(table, table.dealer_button, FALSE)
           /\ dealt[n + 1] = next_occupied_seat(table, table.dealer_button, FALSE)
           /\ dealt[n] = table.dealer_button
           /\ dealt[2 * n] = table.dealer_button

\* C32: start_hand takes no ante or blind from, and deals no hole cards to, a
\* seated player whose status is Busted or SittingOut: that player's stack,
\* status and hole cards are unchanged by the hand.
C32_BustedAndSittingOutAreSkipped ==
    [][(result'.op = "start_hand" /\ result'.ok) =>
          \A seat \in Seats :
              table.seats[seat].status \in {"Busted", "SittingOut"} =>
                  /\ table'.seats[seat].stack = table.seats[seat].stack
                  /\ table'.seats[seat].status = table.seats[seat].status
                  /\ table'.seats[seat].hole_cards = table.seats[seat].hole_cards]_vars

\* C33: an AllIn whose resulting bet strictly exceeds betting.current_bet, even
\* by less than min_raise, is treated as a raise: current_bet becomes the all-in
\* bet, min_raise becomes the increment, last_aggressor becomes the seat, and
\* to_act is rebuilt to contain every other Active seat, including seats that
\* had already acted on this street. (Stated for every all-in the seat to act
\* can make while another seat is Active, so that the betting goes on.)
C33_AllInAboveCurrentBetReopens ==
    (engine.present /\ table.hand_in_progress /\ engine.current_actor # NoSeat) =>
        LET seat == engine.current_actor
            p == table.seats[seat]
            b == engine.betting
            others == {s \in Seats \ {seat} : table.seats[s].status = "Active"}
            r == apply_action(table, engine,
                              [player_id |-> p.player_id, seat |-> seat,
                               kind |-> [k |-> "AllIn", amount |-> 0]], NoShowdown)
        IN (/\ p.stack > 0
            /\ p.current_bet + p.stack > b.current_bet
            /\ others # {})
               => /\ r.ok /\ r.ret = "Ongoing"
                  /\ r.t.seats[seat].status = "AllIn"
                  /\ r.e.betting.current_bet = p.current_bet + p.stack
                  /\ r.e.betting.min_raise = p.current_bet + p.stack - b.current_bet
                  /\ r.e.betting.last_aggressor = seat
                  /\ SeqToSet(r.e.betting.to_act) = others
                  /\ Len(r.e.betting.to_act) = Cardinality(others)

\* C33 witness: before the flop a seat went all-in for one chip more than the
\* big blind, less than the minimum raise of 2, and a seat that had already
\* acted is queued again.
C33_Witness ==
    /\ result.op = "apply_action" /\ result.ok /\ result.seat # NoSeat
    /\ table.hand_in_progress /\ engine.betting.street = "Preflop"
    /\ table.seats[result.seat].status = "AllIn"
    /\ engine.betting.last_aggressor = result.seat
    /\ engine.betting.current_bet = table.seats[result.seat].current_bet
    /\ engine.betting.current_bet = table.config.stakes.big_blind + 1
    /\ engine.betting.min_raise = 1
    /\ \E s \in SeqToSet(engine.betting.to_act) :
          \E i \in 1 .. Len(engine.history) :
              engine.history[i].kind = "PlayerActed" /\ engine.history[i].seat = s

\* The table and the engine as apply_action has them when it asks whether the
\* betting round is complete: after the match on the action kind and mark_acted.
C34_BeforeAdvance(action) ==
    [t |-> ApplyKind(table, engine, action.seat, action.kind).t,
     e |-> [ApplyKind(table, engine, action.seat, action.kind).e
               EXCEPT !.betting = mark_acted(@, action.seat)]]

\* C34: whenever a betting round completes (to_act becomes empty) and the hand
\* goes on to the next street or to showdown, every seat still in Active status
\* has a current_bet equal to betting.current_bet.
C34_ActiveSeatsMatchedTheBet ==
    engine.present =>
        \A action \in PlayerActions(engine.current_actor) :
            (/\ ApplyActionError(table, engine, action) = "Ok"
             /\ count_active_players(C34_BeforeAdvance(action).t) # 1
             /\ is_round_complete(C34_BeforeAdvance(action).e.betting))
                => \A s \in Seats :
                      C34_BeforeAdvance(action).t.seats[s].status = "Active"
                          => C34_BeforeAdvance(action).t.seats[s].current_bet
                                = C34_BeforeAdvance(action).e.betting.current_bet

\* C34 witness: the preflop round was completed by an action and the hand went
\* on to the flop with two Active seats that have put the same amount, at least
\* the big blind, into the pot.
C34_Witness ==
    /\ result.op = "apply_action" /\ result.ok /\ result.via = "advance"
    /\ table.hand_in_progress /\ table.street = "Flop"
    /\ \E s1, s2 \in Seats :
          /\ s1 # s2
          /\ table.seats[s1].status = "Active" /\ table.seats[s2].status = "Active"
          /\ engine.contributions[s1] = engine.contributions[s2]
          /\ engine.contributions[s1] >= table.config.stakes.big_blind

\* C35: a tournament is never in play with a single player: in every reachable
\* state with status Running or OnBreak at least two players are active.
C35_NeverInPlayWithOnePlayer ==
    \A id \in TournamentIds :
        (lobby_has(lobby, id) /\ lobby.tournaments[id].status \in {"Running", "OnBreak"})
            => active_player_count(lobby.tournaments[id]) >= 2

\* The fields of a tournament the claim C36 speaks of.
C36_Outcome(t) ==
    [status |-> t.status, winner_id |-> t.winner_id, finished_count |-> t.finished_count,
     current_level |-> t.current_level,
     finishing_place |-> [p \in Registered(t) |-> t.registrations[p].finishing_place]]

\* C36: Finished is absorbing: once the status is Finished, no register_player,
\* start, mark_player_busted or apply_time_tick call changes status, winner_id,
\* finished_count, current_level or any finishing_place; each such call fails
\* or returns None.
C36_FinishedIsAbsorbing ==
    \A id \in TournamentIds :
        (lobby_has(lobby, id) /\ lobby.tournaments[id].status = "Finished") =>
            LET t == lobby.tournaments[id]
            IN /\ \A player_id \in TourPlayers :
                     /\ ~Tournament_register_player(t, player_id).ok
                     /\ C36_Outcome(Tournament_register_player(t, player_id).t) = C36_Outcome(t)
                     /\ ~mark_player_busted(t, player_id).ok
                     /\ C36_Outcome(mark_player_busted(t, player_id).t) = C36_Outcome(t)
               /\ \A now_ts \in TickTimes :
                     /\ ~Tournament_start(t, now_ts).ok
                     /\ C36_Outcome(Tournament_start(t, now_ts).t) = C36_Outcome(t)
                     /\ apply_time_tick(t, now_ts).ev = "None"
                     /\ C36_Outcome(apply_time_tick(t, now_ts).t) = C36_Outcome(t)

\* C36 witness: a finished tournament with a winner has been handed a clock
\* tick and has answered None.
C36_Witness ==
    /\ result.op = "apply_time_tick" /\ result.ret = "None"
    /\ \A id \in TournamentIds :
          lobby_has(lobby, id) =>
              /\ lobby.tournaments[id].status = "Finished"
              /\ lobby.tournaments[id].winner_id # NoWinner
              /\ lobby.tournaments[id].finished_count >= 1
    /\ \E id \in TournamentIds : lobby_has(lobby, id)

\* C37: a player's time bank is drawn only when the base action time has run
\* out, so a player who always acts within the base time keeps their whole
\* bank: a start_player_turn or on_time_passed call after which base action
\* time is still left has taken nothing from any bank.
C37_BankDrawnOnlyAfterBaseTime ==
    [][(/\ result'.op \in {"start_player_turn", "on_time_passed"}
        /\ engine'.clock.current_player # NoCurrentPlayer
        /\ engine'.clock.remaining_action_secs > 0)
           => engine'.bank = engine.bank]_vars


\* C38: in a turn started for a player under rules with bank_step_secs > 0,
\* however the elapsed time is split across calls of on_time_passed: no call
\* reports a timeout while the seconds elapsed since the turn started do not
\* exceed base_action_secs plus the bank the player had when the turn started,
\* and every call that passes time reports a timeout for that player once they
\* do.  (A call with delta_secs <= 0 passes no time and returns None.)
C38_TimeoutIffBudgetExceeded ==
    (/\ result.op = "on_time_passed"
     /\ result.turn_budget # NoTurn
     /\ engine.rules.bank_step_secs > 0)
        => /\ result.elapsed_secs <= result.turn_budget => result.ret = "None"
           /\ (result.secs > 0 /\ result.elapsed_secs > result.turn_budget)
                 => (result.ret = "TimeoutCheckOrFold" /\ result.player_id = engine.clock.current_player)

\* A turn whose budget held a bank was run out by a later call, after an
\* earlier call of the same turn had passed without a timeout.
C38_Witness ==
    /\ result.op = "on_time_passed"
    /\ result.turn_budget > Max(engine.rules.base_action_secs, 0)
    /\ engine.rules.bank_step_secs > 0
    /\ result.ret = "TimeoutCheckOrFold"
    /\ result.elapsed_secs > result.turn_budget
    /\ result.elapsed_secs - result.secs > Max(engine.rules.base_action_secs, 0)
    /\ result.elapsed_secs - result.secs <= result.turn_budget


\* C39: Tournament::new rejects every configuration whose freezeout flag
\* disagrees with max_entries_per_player = 1, so every tournament that was
\* created has freezeout true exactly when max_entries_per_player is 1.
C39_FreezeoutAgreesWithMaxEntries ==
    \A id \in DOMAIN lobby.tournaments :
        lobby.tournaments[id].present =>
            (lobby.tournaments[id].config.freezeout
                <=> (lobby.tournaments[id].config.max_entries_per_player = 1))


\* ---------------------------------------------------------------------------
\* The tournament and the table manager side by side: tournament.rs keeps the
\* table assignment of every registration, table_manager.rs keeps the tables and
\* the hand engine of each.  The two share table ids and nothing else.
\* ---------------------------------------------------------------------------

\* The table ids of the manager.
FloorTables == 1 .. 2

\* ManagedTable: a table of `seated` funded players and its engine slot.
NoManagedTable == [present |-> FALSE, seated |-> 0, engine |-> FALSE]

ManagedTable_new(seated) == [present |-> TRUE, seated |-> seated, engine |-> FALSE]

\* TableManager::new
TableManager_new == [present |-> TRUE, tables |-> [tid \in FloorTables |-> NoManagedTable]]

\* TableManager::add_table: a table of the same id is replaced.
add_table(m, tid, seated) == [m EXCEPT !.tables[tid] = ManagedTable_new(seated)]

\* TableManager::has_active_hand
has_active_hand(m, tid) ==
    /\ tid \in DOMAIN m.tables
    /\ m.tables[tid].present
    /\ m.tables[tid].engine

\* TableManager::start_hand: engine::start_hand needs two players with chips.
TableManager_start_hand(m, tid) ==
    IF ~m.tables[tid].present THEN [ok |-> FALSE, ret |-> "TableNotFound", m |-> m]
    ELSE IF m.tables[tid].seated < 2 THEN [ok |-> FALSE, ret |-> "NotEnoughPlayers", m |-> m]
    ELSE [ok |-> TRUE, ret |-> "Ok", m |-> [m EXCEPT !.tables[tid].engine = TRUE]]

InitFloor ==
    /\ table = Table_new(CHOOSE st \in StakesChoices : st.ante_type = "None")
    /\ engine = TableManager_new
    /\ \E config \in SeatingConfigs, n \in 3 .. FloorEntrants :
          lobby = [TournamentLobby_new EXCEPT !.tournaments[1] = SeatingTournament(config, n),
                                              !.next_tournament_id = 2]
    /\ result = SeatingResult("start", TRUE, "Ok", <<>>, <<>>, TRUE)

\* TableManager::add_table
FloorAddTable ==
    /\ \E tid \in FloorTables, seated \in 1 .. 2 :
          /\ engine' = add_table(engine, tid, seated)
          /\ result' = SeatingResult("add_table", TRUE, "Ok", <<>>, <<>>, TRUE)
    /\ UNCHANGED <<table, lobby>>

\* TableManager::start_hand
FloorStartHand ==
    /\ \E tid \in FloorTables :
          /\ engine' = TableManager_start_hand(engine, tid).m
          /\ result' = SeatingResult("start_hand", TableManager_start_hand(engine, tid).ok,
                                     TableManager_start_hand(engine, tid).ret, <<>>, <<>>, TRUE)
    /\ UNCHANGED <<table, lobby>>

\* Tournament::seat_players_evenly
FloorSeatPlayers ==
    /\ \E table_size \in 2 .. 3 :
          /\ lobby' = [lobby EXCEPT !.tournaments[1] =
                          seat_players_evenly(lobby.tournaments[1], table_size, 1).t]
          /\ result' = SeatingResult("seat_players_evenly", TRUE, "Ok",
                          seat_players_evenly(lobby.tournaments[1], table_size, 1).result,
                          <<>>, TRUE)
    /\ UNCHANGED <<table, engine>>

\* Tournament::mark_player_busted
FloorBustPlayer ==
    /\ \E player_id \in 1 .. FloorEntrants :
          /\ lobby' = [lobby EXCEPT !.tournaments[1] =
                          mark_player_busted(lobby.tournaments[1], player_id).t]
          /\ result' = SeatingResult("mark_player_busted",
                          mark_player_busted(lobby.tournaments[1], player_id).ok,
                          mark_player_busted(lobby.tournaments[1], player_id).ret,
                          <<>>, <<>>, TRUE)
    /\ UNCHANGED <<table, engine>>

\* Tournament::compute_rebalance_moves followed by Tournament::apply_rebalance_moves
FloorRebalance ==
    /\ \E player_order \in KeyOrders(SeatingPlayers),
          table_order \in KeyOrders(SeatedTables(lobby.tournaments[1])) :
          /\ lobby' = [lobby EXCEPT !.tournaments[1] =
                          apply_rebalance_moves(lobby.tournaments[1],
                              compute_rebalance_moves(lobby.tournaments[1], player_order,
                                                      table_order).moves)]
          /\ result' = SeatingResult("rebalance", TRUE, "Ok", <<>>,
                          compute_rebalance_moves(lobby.tournaments[1], player_order,
                                                  table_order).moves,
                          compute_rebalance_moves(lobby.tournaments[1], player_order,
                                                  table_order).terminated)
    /\ UNCHANGED <<table, engine>>

NextFloor ==
    \/ FloorAddTable
    \/ FloorStartHand
    \/ FloorSeatPlayers
    \/ FloorBustPlayer
    \/ FloorRebalance

SpecFloor == InitFloor /\ [][NextFloor]_vars

\* C40: rebalance moves are never applied to a table while a hand is live on
\* it: whenever the moves change the table assignment of a player, neither the
\* table the player leaves nor the table the player joins has an active hand in
\* the table manager.
C40_NoMoveWhileHandIsLive ==
    [][result'.op = "rebalance" =>
          \A p \in SeatingPlayers :
              (/\ lobby.tournaments[1].registrations[p].present
               /\ lobby'.tournaments[1].registrations[p].table_id
                      # lobby.tournaments[1].registrations[p].table_id)
                 => /\ ~has_active_hand(engine, lobby.tournaments[1].registrations[p].table_id)
                    /\ ~has_active_hand(engine, lobby'.tournaments[1].registrations[p].table_id)]_vars

====
